---- MODULE Spec2Model ----
(***************************************************************************)
(* Verification model of the code analyzer (output/src, output):           *)
(* the dependency analysis (dependency_analyzer.rs:                        *)
(* DependencyAnalyzer::analyze and the passes it runs one after the        *)
(* other), the batch analysis (analyzers/mod.rs:                           *)
(* CodeAnalyzer::analyze_path with AnalysisResults), the complexity        *)
(* measures (ast_analyzer.rs, analyzer.rs, parsers.rs) and the quality     *)
(* gates (ci_integration.rs).                                              *)
(*                                                                         *)
(* Strings (paths, module names, import paths, lines) are sequences of     *)
(* one-character strings, so trimming, replacing, prefix and substring     *)
(* tests are computed as the code computes them.                           *)
(*                                                                         *)
(* Five specifications share the graph passes                              *)
(* (detect_circular_dependencies, find_unused_exports,                     *)
(* analyze_external_dependencies, calculate_dependency_depths,             *)
(* calculate_module_coupling, in the order of analyze):                    *)
(*   Spec          the passes over every graph within the bounds;          *)
(*   SpecTerminating  the same on graphs one smaller, with the fairness    *)
(*                 of a thread that keeps running;                         *)
(*   SpecTwoRuns   the passes run twice over the same modules, the         *)
(*                 registry iterated in two orders;                        *)
(*   SpecAnalyze   analyze from its input files: build_module_registry,    *)
(*                 build_dependency_graph, then the same passes;           *)
(*   SpecCoupling  the same passes over a module with up to MaxCount       *)
(*                 dependents and MaxCount dependencies.                   *)
(* Three share the batch analysis:                                         *)
(*   SpecBatch     analyze_path over every walk of up to MaxEntries        *)
(*                 entries, the files parsed in one step;                  *)
(*   SpecParallel  analyze_path with one worker per file, the workers      *)
(*                 finishing in any order;                                 *)
(*   SpecLongFile  analyze_path over one file of up to MaxFileFunctions    *)
(*                 functions.                                              *)
(* One measures functions and files:                                       *)
(*   SpecComplexity  calculate_cyclomatic_complexity and                   *)
(*                 calculate_nesting_depth of a function node,             *)
(*                 calculate_basic_complexity of the lines of a file,      *)
(*                 RustParser::calculate_complexity of the tree of a file. *)
(* One evaluates quality gates:                                            *)
(*   SpecGates     execute_quality_gates over up to MaxGates gates.        *)
(*                                                                         *)
(* Reading and parsing a file (parse_file) are inputs of the batch         *)
(* analysis: each file comes with its outcome.                             *)
(***************************************************************************)
EXTENDS Integers, Sequences, FiniteSets, TLC

VARIABLES
    input,            \* analyze's argument: the set of analysed files
    data,             \* entries of the argument not yet iterated
    module_registry,  \* self.module_registry : module name -> ModuleInfo
    graph,            \* DependencyGraph { nodes, edges }
    pc,               \* position in analyze
    adjacency,        \* detect_circular_dependencies: from -> list of to
    visited,          \* detect_circular_dependencies: HashSet
    rec_stack,        \* detect_circular_dependencies: HashSet
    path_stack,       \* detect_circular_dependencies: Vec
    call_stack,       \* activation records of dfs_cycle_detection
    node_idx,         \* position of the loop over graph.nodes
    circular_deps,    \* Vec<CircularDependency>
    module_coupling,  \* Vec<ModuleCoupling>
    unused_exports,   \* DependencyAnalysisResult::unused_exports
    external_dependencies, \* DependencyAnalysisResult::external_dependencies
    depths,           \* calculate_dependency_depths: HashMap of the depths
    queue,            \* calculate_dependency_depths: VecDeque of (node, depth)
    dependency_depth, \* DependencyAnalysisResult::dependency_depth
    first_run,        \* the graph and the report of an earlier run, None before
    entries,          \* analyze_path: what the walk of `path` yields
    config,           \* CodeAnalyzer::config
    discovered_files, \* analyze_path: files, the discovered files
    parsed_files,     \* Vec<Result<ParsedFile>>
    parsed_idx,       \* aggregate_results: position of the loop over parsed_files
    results,          \* aggregate_results: AnalysisResults
    returned,         \* what analyze_path returned, None before it returns
    collected,        \* analyze_path: index of a file -> what its worker gave
    finished,         \* the indices of the files in the order their workers finished
    tree,             \* the function node handed to analyze_single_function
    cyclomatic_complexity, \* FunctionAnalysis::cyclomatic_complexity
    nesting_depth,    \* FunctionAnalysis::nesting_depth
    content,          \* analyzer.rs analyze_file: the lines of the file
    basic_complexity, \* FileAnalysisResult::complexity
    parser_complexity, \* parsers.rs: what calculate_complexity gave, None before
    quality_gates,    \* ci_integration.rs: CIConfig::quality_gates
    analysis,         \* execute_quality_gates: analysis_results, None without a run
    gate_idx,         \* execute_quality_gates: position of the loop over the gates
    gate_results,     \* execute_quality_gates: Vec<GateResult>
    overall_status,   \* execute_quality_gates: QualityStatus
    quality_report    \* what execute_quality_gates returned, None before

\* what the workers of the parallel iterator have done
workerVars == <<collected, finished>>

batchVars == <<entries, config, discovered_files, parsed_files, parsed_idx,
               results, returned, workerVars>>

astVars == <<tree, cyclomatic_complexity, nesting_depth, content, basic_complexity,
             parser_complexity>>

\* find_unused_exports, analyze_external_dependencies and
\* calculate_dependency_depths
passVars == <<unused_exports, external_dependencies, depths, queue, dependency_depth>>

\* the state of the analyses other than the passes over the graph that
\* detect cycles and measure coupling
\* ci_integration.rs: execute_quality_gates
gateVars == <<quality_gates, analysis, gate_idx, gate_results, overall_status,
              quality_report>>

otherVars == <<batchVars, astVars, passVars, first_run, gateVars>>

vars == <<input, data, module_registry, graph, pc, adjacency, visited,
          rec_stack, path_stack, call_stack, node_idx, circular_deps,
          module_coupling, otherVars>>

dfsVars == <<adjacency, visited, rec_stack, path_stack, call_stack,
             node_idx, circular_deps>>

----------------------------------------------------------------------------
(* Bounds *)

MaxNodes == 3
MaxEdges == 4
MaxGraphSize == 7 \* nodes and edges of a graph, together
MaxFiles == 3
MaxImports == 2
MaxCount == 15
MaxEntries == 2
MaxFunctions == 2
MaxFileFunctions == 7
MaxTreeNodes == 4
MaxNesting == 3
MaxGates == 2
MaxValue == 1

----------------------------------------------------------------------------
(* Strings *)

StartsWith(s, p) == Len(s) >= Len(p) /\ SubSeq(s, 1, Len(p)) = p

EndsWith(s, p) == Len(s) >= Len(p) /\ SubSeq(s, Len(s) - Len(p) + 1, Len(s)) = p

RECURSIVE TrimEndMatches(_, _)
TrimEndMatches(s, p) ==
    IF p # <<>> /\ EndsWith(s, p)
    THEN TrimEndMatches(SubSeq(s, 1, Len(s) - Len(p)), p)
    ELSE s

RECURSIVE Replace(_, _, _)
Replace(s, c, r) ==
    IF s = <<>> THEN <<>>
    ELSE (IF Head(s) = c THEN r ELSE <<Head(s)>>) \o Replace(Tail(s), c, r)

StripPrefix(path, base) ==
    IF path = base THEN <<>>
    ELSE IF StartsWith(path, base \o <<"/">>)
         THEN SubSeq(path, Len(base) + 2, Len(path))
         ELSE path

RootPath == <<".">>

----------------------------------------------------------------------------
(* Language conventions of module names and import paths *)

Languages == {"Rust", "JavaScript", "TypeScript", "Python", "Go", "Unknown"}

\* path_to_module_name
PathToModuleName(file_path, language) ==
    LET path_str == StripPrefix(file_path, RootPath) IN
    CASE language \in {"JavaScript", "TypeScript"} ->
            Replace(
                TrimEndMatches(
                    TrimEndMatches(
                        TrimEndMatches(
                            TrimEndMatches(path_str, <<".", "j", "s">>),
                            <<".", "t", "s">>),
                        <<".", "j", "s", "x">>),
                    <<".", "t", "s", "x">>),
                "/", <<":", ":">>)
      [] language = "Rust" ->
            Replace(TrimEndMatches(path_str, <<".", "r", "s">>), "/", <<":", ":">>)
      [] language = "Python" ->
            Replace(TrimEndMatches(path_str, <<".", "p", "y">>), "/", <<".">>)
      [] OTHER -> path_str

\* is_external_dependency
IsExternalDependency(import_path, language) ==
    CASE language \in {"JavaScript", "TypeScript"} ->
            /\ ~StartsWith(import_path, <<".", "/">>)
            /\ ~StartsWith(import_path, <<".", ".", "/">>)
      [] language = "Rust" ->
            /\ ~StartsWith(import_path, <<"c", "r", "a", "t", "e", ":", ":">>)
            /\ ~StartsWith(import_path, <<"s", "u", "p", "e", "r", ":", ":">>)
            /\ ~StartsWith(import_path, <<"s", "e", "l", "f", ":", ":">>)
      [] language = "Python" ->
            ~StartsWith(import_path, <<".">>)
      [] OTHER -> TRUE

\* Option<String>: None is the empty set, Some(t) is {t}
None == {}

Some(x) == {x}

\* resolve_import_to_module
ResolveImportToModule(import_path, language) ==
    IF IsExternalDependency(import_path, language)
    THEN None
    ELSE Some(import_path)

----------------------------------------------------------------------------
(* Graphs handed to the passes.  build_dependency_graph pushes the nodes in *)
(* the iteration order of the registry and the edges grouped by their       *)
(* `from`, in that same order; `to` is whatever the import resolved to, a   *)
(* node or not.  Every iteration order of a graph is one of the graphs      *)
(* below, its nodes renamed.                                                *)

NodeNames == <<"A", "B", "C", "D", "E", "F">>

\* a module id that is no node of the graph
UnknownId == "X"

Node(name) ==
    [id |-> name, file_path |-> name, module_name |-> name, exports |-> <<>>]

Edge(from, to) ==
    [from |-> from, to |-> to, import_type |-> "Namespace",
     imported_symbols |-> <<>>]

\* the graph of n nodes whose i-th edge goes from node e[i][1] to node
\* e[i][2], or to the unknown id when e[i][2] = n + 1
GraphOf(n, from, to) ==
    LET Target(j) == IF j <= n THEN NodeNames[j] ELSE UnknownId IN
    [nodes |-> [i \in 1..n |-> Node(NodeNames[i])],
     edges |-> [i \in DOMAIN from |-> Edge(NodeNames[from[i]], Target(to[i]))]]

\* edges grouped by their `from`, in the order of the nodes
Grouped(from) == \A i \in 1..(Len(from) - 1) : from[i] <= from[i + 1]

EmptyGraph == [nodes |-> <<>>, edges |-> <<>>]

NodeIds(g) == { g.nodes[i].id : i \in DOMAIN g.nodes }

HasEdge(g, a, b) == \E i \in DOMAIN g.edges : g.edges[i].from = a /\ g.edges[i].to = b

----------------------------------------------------------------------------
(* detect_circular_dependencies and dfs_cycle_detection *)

\* the adjacency list built from graph.edges
BuildAdjacency(edges) ==
    [f \in { edges[i].from : i \in DOMAIN edges } |->
        LET From(e) == e.from = f
            sel == SelectSeq(edges, From)
        IN  [i \in 1..Len(sel) |-> sel[i].to]]

\* adjacency.get(node): the neighbours iterated, none when the key is absent
Neighbors(adj, node) == IF node \in DOMAIN adj THEN adj[node] ELSE <<>>

\* path_stack.iter().position(|x| x == neighbor), 1-based; 0 for None
Position(path, x) ==
    IF \E i \in DOMAIN path : path[i] = x
    THEN CHOOSE i \in DOMAIN path : path[i] = x /\ \A j \in 1..(i - 1) : path[j] # x
    ELSE 0

\* the cycle returned on a back edge: path_stack[cycle_start..] plus neighbor
CyclePath(path, neighbor) ==
    Append(SubSeq(path, Position(path, neighbor), Len(path)), neighbor)

\* Severity with the half-open ranges 1..2 and 3..4 for 1..=2 and 3..=4
SeverityHalfOpen(len) ==
    IF len \in 1..1 THEN "Low"
    ELSE IF len \in 3..3 THEN "Medium"
    ELSE "High"

\* match cycle.len() { 1..=2 => Low, 3..=4 => Medium, _ => High }
Severity(len) ==
    IF len \in 1..2 THEN "Low"
    ELSE IF len \in 3..4 THEN "Medium"
    ELSE "High"

CircularDependency(cycle) == [cycle |-> cycle, severity |-> Severity(Len(cycle))]

Frame(node) == [node |-> node, i |-> 1]

Top == call_stack[Len(call_stack)]

\* the caller resumes its loop over the neighbours after a call returned None
ReturnNone(stack) ==
    LET rest == SubSeq(stack, 1, Len(stack) - 1) IN
    IF rest = <<>> THEN rest
    ELSE [rest EXCEPT ![Len(rest)].i = @ + 1]

\* a back edge that does not end the search: the loop goes on to the next
\* neighbour after recording the cycle
ReturnSomeAndGoOn(stack) == [stack EXCEPT ![Len(stack)].i = @ + 1]

\* Some(cycle) is returned through every caller up to the loop over the nodes
ReturnSome(stack) == <<>>

\* the node is entered without being put on the recursion stack
EnterUntracked(node) ==
    /\ visited' = visited \cup {node}
    /\ rec_stack' = rec_stack
    /\ path_stack' = Append(path_stack, node)

\* lines 227-229: the entry of dfs_cycle_detection(node)
Enter(node) ==
    /\ visited' = visited \cup {node}
    /\ rec_stack' = rec_stack \cup {node}
    /\ path_stack' = Append(path_stack, node)

\* lines 179-190: the locals and the adjacency list
DetectStart ==
    /\ pc = "detect"
    /\ circular_deps' = <<>>
    /\ visited' = {}
    /\ rec_stack' = {}
    /\ path_stack' = <<>>
    /\ call_stack' = <<>>
    /\ node_idx' = 1
    /\ adjacency' = BuildAdjacency(graph.edges)
    /\ pc' = "dfs"
    /\ UNCHANGED <<otherVars, input, data, module_registry, graph, module_coupling>>

\* lines 192-193: the next node of graph.nodes, a DFS root when unvisited
DetectLoop ==
    /\ pc = "dfs"
    /\ call_stack = <<>>
    /\ node_idx <= Len(graph.nodes)
    /\ LET id == graph.nodes[node_idx].id IN
       IF id \in visited
       THEN /\ node_idx' = node_idx + 1
            /\ UNCHANGED <<visited, rec_stack, path_stack, call_stack>>
       ELSE /\ Enter(id)
            /\ call_stack' = <<Frame(id)>>
            /\ UNCHANGED node_idx
    /\ UNCHANGED <<otherVars, input, data, module_registry, graph, pc, adjacency,
                   circular_deps, module_coupling>>

\* lines 233-234: an unvisited neighbour, the recursive call
DfsCall ==
    /\ pc = "dfs"
    /\ call_stack # <<>>
    /\ Top.i <= Len(Neighbors(adjacency, Top.node))
    /\ LET neighbor == Neighbors(adjacency, Top.node)[Top.i] IN
       /\ neighbor \notin visited
       /\ Enter(neighbor)
       /\ call_stack' = Append(call_stack, Frame(neighbor))
    /\ UNCHANGED <<otherVars, input, data, module_registry, graph, pc, adjacency,
                   node_idx, circular_deps, module_coupling>>

\* lines 243-249 and 241, 201-210: a neighbour on the recursion stack; the
\* cycle is returned to the loop over the nodes, which records it.  Neither
\* rec_stack nor path_stack is unwound on this path.
DfsCycle ==
    /\ pc = "dfs"
    /\ call_stack # <<>>
    /\ Top.i <= Len(Neighbors(adjacency, Top.node))
    /\ LET neighbor == Neighbors(adjacency, Top.node)[Top.i] IN
       /\ neighbor \in visited
       /\ neighbor \in rec_stack
       /\ Position(path_stack, neighbor) # 0
       /\ circular_deps' =
            Append(circular_deps, CircularDependency(CyclePath(path_stack, neighbor)))
    /\ call_stack' = ReturnSome(call_stack)
    /\ node_idx' = IF call_stack' = <<>> THEN node_idx + 1 ELSE node_idx
    /\ UNCHANGED <<otherVars, input, data, module_registry, graph, pc, adjacency,
                   visited, rec_stack, path_stack, module_coupling>>

\* lines 232-251: a visited neighbour that closes no cycle
DfsSkip ==
    /\ pc = "dfs"
    /\ call_stack # <<>>
    /\ Top.i <= Len(Neighbors(adjacency, Top.node))
    /\ LET neighbor == Neighbors(adjacency, Top.node)[Top.i] IN
       /\ neighbor \in visited
       /\ ~(neighbor \in rec_stack /\ Position(path_stack, neighbor) # 0)
    /\ call_stack' = [call_stack EXCEPT ![Len(call_stack)].i = @ + 1]
    /\ UNCHANGED <<otherVars, input, data, module_registry, graph, pc, adjacency,
                   visited, rec_stack, path_stack, node_idx, circular_deps,
                   module_coupling>>

\* lines 254-256: the neighbours are exhausted, None is returned
DfsReturn ==
    /\ pc = "dfs"
    /\ call_stack # <<>>
    /\ Top.i > Len(Neighbors(adjacency, Top.node))
    /\ rec_stack' = rec_stack \ {Top.node}
    /\ path_stack' = SubSeq(path_stack, 1, Len(path_stack) - 1)
    /\ call_stack' = ReturnNone(call_stack)
    /\ node_idx' = IF call_stack' = <<>> THEN node_idx + 1 ELSE node_idx
    /\ UNCHANGED <<otherVars, input, data, module_registry, graph, pc, adjacency,
                   visited, circular_deps, module_coupling>>

\* line 215: Ok(circular_deps); analyze goes on to the coupling metrics
DetectEnd ==
    /\ pc = "dfs"
    /\ call_stack = <<>>
    /\ node_idx > Len(graph.nodes)
    /\ pc' = "unused"
    /\ UNCHANGED <<otherVars, input, data, module_registry, graph, dfsVars, module_coupling>>

----------------------------------------------------------------------------
(* find_unused_exports, analyze_external_dependencies and                   *)
(* calculate_dependency_depths                                              *)

\* HashMap::insert
Insert(map, key, value) ==
    [k \in DOMAIN map \cup {key} |-> IF k = key THEN value ELSE map[k]]

\* the orders in which a HashMap of these keys may be iterated
IterationOrders(keys) ==
    { o \in [1..Cardinality(keys) -> keys] :
        \A i, j \in DOMAIN o : i # j => o[i] # o[j] }

\* lines 263-267: format!("{}::{}", edge.to, symbol) of every imported symbol
UsedSymbols(edges) ==
    UNION { { <<edges[i].to, edges[i].imported_symbols[j]>> :
                j \in DOMAIN edges[i].imported_symbols } : i \in DOMAIN edges }

\* lines 273-284: the exports of one module that are reported
RECURSIVE UnusedExportsOf(_, _, _, _)
UnusedExportsOf(module_name, module_info, exports, used_symbols) ==
    IF exports = <<>> THEN <<>>
    ELSE LET export == Head(exports) IN
         (IF <<module_name, export.name>> \notin used_symbols /\ ~export.is_default
          THEN << [module_name |-> module_name,
                   export_name |-> export.name,
                   file_path |-> module_info.file_path,
                   line |-> export.line] >>
          ELSE <<>>)
            \o UnusedExportsOf(module_name, module_info, Tail(exports), used_symbols)

\* lines 272-285: the loop over the registry
RECURSIVE AllUnusedExports(_, _, _)
AllUnusedExports(registry, order, used_symbols) ==
    IF order = <<>> THEN <<>>
    ELSE LET m == Head(order) IN
         UnusedExportsOf(m, registry[m], registry[m].exports, used_symbols)
            \o AllUnusedExports(registry, Tail(order), used_symbols)

\* lines 260-288
FindUnusedExports ==
    /\ pc = "unused"
    /\ \E order \in IterationOrders(DOMAIN module_registry) :
         unused_exports' =
             AllUnusedExports(module_registry, order, UsedSymbols(graph.edges))
    /\ pc' = "external"
    /\ UNCHANGED <<batchVars, astVars, gateVars, first_run, input, data, module_registry, graph, dfsVars,
                   module_coupling, external_dependencies, depths, queue,
                   dependency_depth>>

\* line 296: *external_deps.entry(dep.clone()).or_insert(0) += 1, for every
\* name of the HashSet of one module
RECURSIVE CountDependencies(_, _)
CountDependencies(external_deps, deps) ==
    IF deps = {} THEN external_deps
    ELSE LET dep == CHOOSE d \in deps : TRUE
             count == IF dep \in DOMAIN external_deps THEN external_deps[dep] ELSE 0
         IN  CountDependencies(Insert(external_deps, dep, count + 1), deps \ {dep})

\* lines 292-298: the loop over the registry
RECURSIVE CountExternalDependencies(_, _, _)
CountExternalDependencies(external_deps, registry, modules) ==
    IF modules = {} THEN external_deps
    ELSE LET m == CHOOSE x \in modules : TRUE IN
         CountExternalDependencies(
             CountDependencies(external_deps, registry[m].external_dependencies),
             registry, modules \ {m})

\* lines 291-300
AnalyzeExternalDependencies ==
    /\ pc = "external"
    /\ external_dependencies' =
         CountExternalDependencies(<<>>, module_registry, DOMAIN module_registry)
    /\ pc' = "depths"
    /\ UNCHANGED <<batchVars, astVars, gateVars, first_run, input, data, module_registry, graph, dfsVars,
                   module_coupling, unused_exports, depths, queue, dependency_depth>>

\* lines 314-317: reverse_adjacency, to -> the list of from, in edge order
BuildReverseAdjacency(edges) ==
    [t \in { edges[i].to : i \in DOMAIN edges } |->
        LET To(e) == e.to = t
            sel == SelectSeq(edges, To)
        IN  [i \in 1..Len(sel) |-> sel[i].from]]

\* lines 322-327: the nodes without a key in adjacency, in node order
LeafNodes(g) ==
    LET outgoing == DOMAIN BuildAdjacency(g.edges)
        IsLeaf(node) == node.id \notin outgoing
        leaves == SelectSeq(g.nodes, IsLeaf)
    IN  [i \in DOMAIN leaves |-> leaves[i].id]

\* lines 305-328: the locals, the leaves get depth 0 and are queued
DepthsStart ==
    /\ pc = "depths"
    /\ LET leaves == LeafNodes(graph) IN
       /\ depths' = [id \in { leaves[i] : i \in DOMAIN leaves } |-> 0]
       /\ queue' = [i \in DOMAIN leaves |-> <<leaves[i], 0>>]
    /\ pc' = "bfs"
    /\ UNCHANGED <<batchVars, astVars, gateVars, first_run, input, data, module_registry, graph, dfsVars,
                   module_coupling, unused_exports, external_dependencies,
                   dependency_depth>>

\* line 336: new_depth < *depths.get(dependent).unwrap_or(&u32::MAX); a depth
\* is below the number of nodes, far from u32::MAX
IsShorter(new_depth, known, dependent) ==
    dependent \notin DOMAIN known \/ new_depth < known[dependent]

\* lines 333-340: the loop over the dependents of the node taken from the
\* queue; state holds depths and queue
RECURSIVE VisitDependents(_, _, _)
VisitDependents(state, dependents, depth) ==
    IF dependents = <<>> THEN state
    ELSE LET dependent == Head(dependents)
             new_depth == depth + 1
         IN  VisitDependents(
                 IF IsShorter(new_depth, state.depths, dependent)
                 THEN [depths |-> Insert(state.depths, dependent, new_depth),
                       queue |-> Append(state.queue, <<dependent, new_depth>>)]
                 ELSE state,
                 Tail(dependents), depth)

\* the entry at the front stays in the queue
KeepFront(q) == q

\* line 331: queue.pop_front() leaves the rest of the queue
PopFront(q) == Tail(q)

\* lines 331-341: one iteration of the while loop
DepthsStep ==
    /\ pc = "bfs"
    /\ queue # <<>>
    /\ LET node == Head(queue)[1]
           depth == Head(queue)[2]
           reverse_adjacency == BuildReverseAdjacency(graph.edges)
           after == VisitDependents([depths |-> depths, queue |-> PopFront(queue)],
                                    Neighbors(reverse_adjacency, node), depth)
       IN  /\ depths' = after.depths
           /\ queue' = after.queue
    /\ UNCHANGED <<batchVars, astVars, gateVars, first_run, input, data, module_registry, graph, dfsVars,
                   module_coupling, unused_exports, external_dependencies,
                   dependency_depth, pc>>

\* lines 331, 343: the queue is empty, the depths are returned
DepthsEnd ==
    /\ pc = "bfs"
    /\ queue = <<>>
    /\ dependency_depth' = depths
    /\ pc' = "coupling"
    /\ UNCHANGED <<batchVars, astVars, gateVars, first_run, input, data, module_registry, graph, dfsVars,
                   module_coupling, unused_exports, external_dependencies, depths,
                   queue>>

----------------------------------------------------------------------------
(* calculate_module_coupling *)

(* f64: zero, or bits * 2^exp where bits is a 53-bit integer written least  *)
(* significant bit first with its last bit 1.  Division and multiplication  *)
(* round the exact result to the nearest such value, ties to even.          *)

F64Precision == 53

\* the k low binary digits of a natural number, least significant first
LowBits(n, k) == [i \in 1..k |-> (n \div 2^(i - 1)) % 2]

\* without its leading zeros
Trim(b) ==
    IF \A i \in DOMAIN b : b[i] = 0 THEN <<>>
    ELSE SubSeq(b, 1, CHOOSE i \in DOMAIN b :
                          b[i] = 1 /\ \A j \in (i + 1)..Len(b) : b[j] = 0)

\* the binary digits of a natural number below 2^31
BitsOf(n) == Trim(LowBits(n, 31))

Zeros(k) == [i \in 1..k |-> 0]

BitAt(b, i) == IF i <= Len(b) THEN b[i] ELSE 0

\* the number written by the 8 low digits of b
Limb(b) ==
    BitAt(b, 1) + 2 * BitAt(b, 2) + 4 * BitAt(b, 3) + 8 * BitAt(b, 4)
        + 16 * BitAt(b, 5) + 32 * BitAt(b, 6) + 64 * BitAt(b, 7) + 128 * BitAt(b, 8)

\* b * t + carry for a small natural t, 8 digits of b at a time
RECURSIVE MulSmall(_, _, _)
MulSmall(b, t, carry) ==
    IF b = <<>> THEN BitsOf(carry)
    ELSE LET k == IF Len(b) < 8 THEN Len(b) ELSE 8
             v == Limb(b) * t + carry
         IN  LowBits(v, k) \o MulSmall(SubSeq(b, k + 1, Len(b)), t, v \div 2^k)

\* b + 1
Inc(b) ==
    IF \A i \in DOMAIN b : b[i] = 1 THEN Zeros(Len(b)) \o <<1>>
    ELSE LET z == CHOOSE i \in DOMAIN b :
                      b[i] = 0 /\ \A j \in 1..(i - 1) : b[j] = 1
         IN  Zeros(z - 1) \o <<1>> \o SubSeq(b, z + 1, Len(b))

F64Zero == [exp |-> 0, bits |-> <<>>]

\* the f64 nearest to b * 2^exp (plus a positive fraction of its last bit
\* when sticky), b without leading zeros and not empty
F64Round(b, exp, sticky) ==
    LET d == Len(b) - F64Precision IN
    IF d <= 0 THEN [exp |-> exp + d, bits |-> Zeros(-d) \o b]
    ELSE LET kept == SubSeq(b, d + 1, Len(b))
             low == sticky \/ \E i \in 1..(d - 1) : b[i] = 1
             up == b[d] = 1 /\ (low \/ kept[1] = 1)
             next == Inc(kept)
         IN  IF ~up THEN [exp |-> exp + d, bits |-> kept]
             ELSE IF Len(next) > F64Precision
                  THEN [exp |-> exp + d + 1, bits |-> Tail(next)]
                  ELSE [exp |-> exp + d, bits |-> next]

\* u32 as f64
F64FromNat(n) == IF n = 0 THEN F64Zero ELSE F64Round(BitsOf(n), 0, FALSE)

\* 8 * n binary digits of r / t after the point (r < t), and the remainder
RECURSIVE FracDiv(_, _, _, _)
FracDiv(r, t, n, acc) ==
    IF n = 0 THEN [bits |-> acc, rem |-> r]
    ELSE FracDiv((256 * r) % t, t, n - 1, LowBits((256 * r) \div t, 8) \o acc)

\* e as f64 / t as f64, for t > 0
F64Div(e, t) ==
    IF e = 0 THEN F64Zero
    ELSE LET n == (F64Precision + 2 + Len(BitsOf(t))) \div 8 + 1
             frac == FracDiv(e % t, t, n, <<>>)
         IN  F64Round(Trim(frac.bits \o BitsOf(e \div t)), -(8 * n), frac.rem # 0)

\* the most edges a graph within the bounds has
MostEdges ==
    LET sizes == {MaxEdges, MaxFiles * MaxImports, 2 * MaxCount + 1} IN
    CHOOSE m \in sizes : \A k \in sizes : k <= m

\* e as f64 / t as f64 for every efferent count e and every sum t of an
\* afferent and an efferent count that occurs, computed once
F64Quotient ==
    [e \in 0..MostEdges |-> [t \in 1..(2 * MostEdges) |-> F64Div(e, t)]]

\* x * (t as f64)
F64MulNat(x, t) ==
    IF x = F64Zero \/ t = 0 THEN F64Zero
    ELSE F64Round(Trim(MulSmall(x.bits, t, 0)), x.exp, FALSE)

\* x <= 1.0
F64LeqOne(x) ==
    \/ x = F64Zero
    \/ x.exp < 1 - F64Precision
    \/ x = F64FromNat(1)

\* lines 353-356: one increment per edge
CountFrom(edges, id) == Cardinality({ i \in DOMAIN edges : edges[i].from = id })

CountTo(edges, id) == Cardinality({ i \in DOMAIN edges : edges[i].to = id })

\* the quotient with the afferent count for the efferent one
InstabilityOfAfferent(afferent_coupling, efferent_coupling) ==
    IF afferent_coupling + efferent_coupling > 0
    THEN F64Div(afferent_coupling, afferent_coupling + efferent_coupling)
    ELSE F64Zero

\* lines 362-366
Instability(afferent_coupling, efferent_coupling) ==
    IF afferent_coupling + efferent_coupling > 0
    THEN F64Quotient[efferent_coupling][afferent_coupling + efferent_coupling]
    ELSE F64Zero

\* lines 358-378: one ModuleCoupling per node, in the order of graph.nodes
ModuleCoupling(g, id) ==
    LET afferent_coupling == CountTo(g.edges, id)
        efferent_coupling == CountFrom(g.edges, id)
    IN  [module_name |-> id,
         afferent_coupling |-> afferent_coupling,
         efferent_coupling |-> efferent_coupling,
         instability |-> Instability(afferent_coupling, efferent_coupling),
         abstractness |-> F64Zero]

CalculateModuleCoupling ==
    /\ pc = "coupling"
    /\ module_coupling' =
         [i \in DOMAIN graph.nodes |-> ModuleCoupling(graph, graph.nodes[i].id)]
    /\ pc' = "done"
    /\ UNCHANGED <<otherVars, input, data, module_registry, graph, dfsVars>>

----------------------------------------------------------------------------
(* analyzers/mod.rs: CodeAnalyzer::analyze_path, the batch analysis of the  *)
(* files under a path                                                       *)

\* str::contains
Contains(s, p) == \E i \in 0..(Len(s) - Len(p)) : SubSeq(s, i + 1, i + Len(p)) = p

\* the last position of c in s, 0 when there is none
LastIndexOf(s, c) ==
    IF \A i \in DOMAIN s : s[i] # c THEN 0
    ELSE CHOOSE i \in DOMAIN s : s[i] = c /\ \A j \in (i + 1)..Len(s) : s[j] # c

\* Path::file_name
FileName(path) == SubSeq(path, LastIndexOf(path, "/") + 1, Len(path))

\* Path::extension: what follows the last dot of the file name, unless the
\* name has no dot or only a leading one
Extension(path) ==
    LET name == FileName(path)
        dot == LastIndexOf(name, ".")
    IN  IF dot <= 1 THEN None ELSE Some(SubSeq(name, dot + 1, Len(name)))

\* AnalysisConfig::default
DefaultConfig ==
    [min_complexity_threshold |-> 5,
     include_tests |-> FALSE,
     max_file_size |-> 1024 * 1024,
     excluded_paths |-> <<<<"n", "o", "d", "e", "_", "m", "o", "d", "u", "l", "e", "s">>, <<"t", "a", "r", "g", "e", "t">>, <<".", "g", "i", "t">>, <<"d", "i", "s", "t">>, <<"b", "u", "i", "l", "d">>>>,
     focus_languages |-> None]

\* is_excluded_path
IsExcludedPath(cfg, path) ==
    \E i \in DOMAIN cfg.excluded_paths : Contains(path, cfg.excluded_paths[i])

\* is_test_file
IsTestFile(path) ==
    \/ Contains(path, <<"t", "e", "s", "t">>)
    \/ Contains(path, <<"s", "p", "e", "c">>)
    \/ EndsWith(path, <<"_", "t", "e", "s", "t", ".", "r", "s">>)
    \/ EndsWith(path, <<".", "t", "e", "s", "t", ".", "j", "s">>)
    \/ EndsWith(path, <<"_", "s", "p", "e", "c", ".", "r", "b">>)

\* is_supported_extension
IsSupportedExtension(extension) ==
    extension \in {<<"r", "s">>, <<"j", "s">>, <<"t", "s">>, <<"p", "y">>, <<"g", "o">>, <<"j", "s", "x">>, <<"t", "s", "x">>}

\* AnalysisResults::detect_language: by what follows the last dot of the path
DetectLanguage(file_path) ==
    LET extension == SubSeq(file_path, LastIndexOf(file_path, ".") + 1, Len(file_path)) IN
    CASE extension = <<"r", "s">> -> "Rust"
      [] extension \in {<<"j", "s">>, <<"j", "s", "x">>} -> "JavaScript"
      [] extension \in {<<"t", "s">>, <<"t", "s", "x">>} -> "TypeScript"
      [] extension = <<"p", "y">> -> "Python"
      [] extension = <<"g", "o">> -> "Go"
      [] OTHER -> "Unknown"

\* Result<T>
Ok(value) == [ok |-> TRUE, value |-> value]

Err(error) == [ok |-> FALSE, error |-> error]

\* discover_files: the loop over the entries of the walk, from entry i on
RECURSIVE DiscoverFrom(_, _, _, _)
DiscoverFrom(cfg, walk, i, found) ==
    IF i > Len(walk) THEN Ok(found)
    ELSE LET result == walk[i] IN
         IF ~result.ok THEN Err(<<"Failed to read directory entry">>)
         ELSE LET entry == result.value
                  path == entry.path
                  skipped ==
                      \/ ~entry.is_file
                      \/ \E len \in entry.metadata : len > cfg.max_file_size
                      \/ IsExcludedPath(cfg, path)
                      \/ ~cfg.include_tests /\ IsTestFile(path)
                      \/ \A ext \in Extension(path) : ~IsSupportedExtension(ext)
              IN  DiscoverFrom(cfg, walk, i + 1,
                               IF skipped THEN found ELSE Append(found, path))

DiscoverFiles(cfg, walk) == DiscoverFrom(cfg, walk, 1, <<>>)

\* no batch analysis is running
IdleBatch ==
    /\ entries = <<>>
    /\ config = DefaultConfig
    /\ discovered_files = <<>>
    /\ parsed_files = <<>>
    /\ parsed_idx = 1
    /\ results = None
    /\ returned = None
    /\ collected = <<>>
    /\ finished = <<>>

----------------------------------------------------------------------------
(***************************************************************************)
(* ast_analyzer.rs: the complexity and the nesting depth of a function.    *)
(* A syntax tree is the sequence of its nodes in the order a TreeCursor    *)
(* meets them (a node before its children, the children from left to       *)
(* right); a node is its kind and the position of its parent, 0 for the    *)
(* root.  Keywords and punctuation are nodes as well: the cursor visits    *)
(* them and kind() gives their text.                                       *)
(***************************************************************************)

\* the children grafted under the root of a tree, the first of them
\* starting after position offset
RECURSIVE Graft(_, _)
Graft(children, offset) ==
    IF children = <<>> THEN <<>>
    ELSE LET child == Head(children)
             moved == [i \in DOMAIN child |->
                          [kind |-> child[i].kind,
                           parent |-> IF child[i].parent = 0 THEN 1
                                      ELSE child[i].parent + offset]]
         IN  moved \o Graft(Tail(children), offset + Len(child))

\* the tree of a node of the given kind over the trees of its children
Tree(kind, children) == <<[kind |-> kind, parent |-> 0]>> \o Graft(children, 1)

\* a node without children
Token(kind) == Tree(kind, <<>>)

\* calculate_cyclomatic_complexity, lines 474-489: what a node of the kind
\* adds to the complexity
DecisionPoints(kind) ==
    CASE kind \in {"if_statement", "if_expression"} -> 1
      [] kind \in {"else_clause", "else"} -> 1
      [] kind \in {"while_statement", "while_expression"} -> 1
      [] kind \in {"for_statement", "for_expression", "for_in_statement"} -> 1
      [] kind \in {"switch_statement", "match_expression"} -> 1
      [] kind \in {"case_clause", "match_arm"} -> 1
      [] kind \in {"catch_clause", "try_statement"} -> 1
      [] kind = "conditional_expression" -> 1
      [] kind = "loop_expression" -> 1
      [] kind = "binary_expression" -> 0
      [] OTHER -> 0

\* calculate_cyclomatic_complexity of the root of t: traverse_node visits
\* every node of the tree once, each node adds 0 or 1
CalculateCyclomaticComplexity(t) ==
    1 + Cardinality({ i \in DOMAIN t : DecisionPoints(t[i].kind) = 1 })

\* calculate_nesting_depth, lines 514-525: the kinds that add a level
IncreasesNesting(kind) ==
    kind \in {"if_statement", "if_expression",
              "while_statement", "while_expression",
              "for_statement", "for_expression", "for_in_statement",
              "switch_statement", "match_expression",
              "try_statement", "catch_clause",
              "loop_expression",
              "block", "compound_statement"}

\* nested_depth of traverse_for_depth at node i of t
RECURSIVE NestedDepth(_, _)
NestedDepth(t, i) ==
    (IF t[i].parent = 0 THEN 0 ELSE NestedDepth(t, t[i].parent))
        + (IF IncreasesNesting(t[i].kind) THEN 1 ELSE 0)

\* calculate_nesting_depth of the root of t
CalculateNestingDepth(t) ==
    LET reached == { NestedDepth(t, i) : i \in { j \in DOMAIN t : IncreasesNesting(t[j].kind) } }
    IN  IF reached = {} THEN 0
        ELSE CHOOSE d \in reached : \A e \in reached : e <= d

(***************************************************************************)
(* analyzer.rs: the complexity of a file, counted on its lines             *)
(***************************************************************************)

\* str::trim, for lines whose only white space is the space
TrimLine(line) ==
    IF \A i \in DOMAIN line : line[i] = " " THEN <<>>
    ELSE LET first == CHOOSE i \in DOMAIN line :
                          line[i] # " " /\ \A j \in 1..(i - 1) : line[j] = " "
             last == CHOOSE i \in DOMAIN line :
                         line[i] # " " /\ \A j \in (i + 1)..Len(line) : line[j] = " "
         IN  SubSeq(line, first, last)

\* calculate_basic_complexity, lines 217-232: the five tests made on a line
LineTests ==
    << {<<"i", "f", " ">>, <<"e", "l", "s", "e", " ", "i", "f">>},
       {<<"w", "h", "i", "l", "e", " ">>, <<"f", "o", "r", " ">>},
       {<<"m", "a", "t", "c", "h", " ">>, <<"s", "w", "i", "t", "c", "h", " ">>},
       {<<"c", "a", "t", "c", "h", " ">>, <<"e", "x", "c", "e", "p", "t", " ">>},
       {<<"c", "a", "s", "e", " ">>, <<"w", "h", "e", "n", " ">>} >>

\* calculate_basic_complexity of the lines of a file
CalculateBasicComplexity(lines) ==
    1 + Cardinality({ <<i, k>> \in (DOMAIN lines) \X (DOMAIN LineTests) :
                          \E keyword \in LineTests[k] :
                              Contains(TrimLine(lines[i]), keyword) })

(***************************************************************************)
(* parsers.rs: RustParser, the complexity of a parsed file                 *)
(***************************************************************************)

\* a value, or the panic that ended the call
Returned(value) == [panicked |-> FALSE, value |-> value]

Panicked == [panicked |-> TRUE, value |-> 0]

\* Node::utf8_text(&[]) at line 92: the text of the node is sliced out of an
\* empty source, which panics unless the node is empty and starts at byte 0;
\* a binary_expression has operands, so it is never empty
Utf8TextOfNothingPanics(kind) == kind = "binary_expression"

\* count_complexity_nodes, lines 82-87: what a node of the kind adds
RustComplexityNodes(kind) ==
    CASE kind \in {"if_expression", "match_expression", "while_expression",
                   "for_expression", "loop_expression"} -> 1
      [] kind = "match_arm" -> 1
      [] OTHER -> 0

\* RustParser::calculate_complexity for the tree t of a file: the count of
\* count_complexity_nodes over every node, at least 1
CalculateComplexity(t) ==
    IF \E i \in DOMAIN t : Utf8TextOfNothingPanics(t[i].kind) THEN Panicked
    ELSE LET counted == Cardinality({ i \in DOMAIN t : RustComplexityNodes(t[i].kind) = 1 })
         IN  Returned(IF counted >= 1 THEN counted ELSE 1)

\* no function and no file is being measured
IdleFunction ==
    /\ tree = <<>>
    /\ cyclomatic_complexity = 0
    /\ nesting_depth = 0
    /\ content = <<>>
    /\ basic_complexity = 0
    /\ parser_complexity = None

\* no quality gate is being evaluated
IdleGates ==
    /\ quality_gates = <<>>
    /\ analysis = None
    /\ gate_idx = 1
    /\ gate_results = <<>>
    /\ overall_status = "Pass"
    /\ quality_report = None

----------------------------------------------------------------------------
(* The passes over a graph *)

\* find_unused_exports, analyze_external_dependencies and
\* calculate_dependency_depths have not run
IdlePasses ==
    /\ unused_exports = <<>>
    /\ external_dependencies = <<>>
    /\ depths = <<>>
    /\ queue = <<>>
    /\ dependency_depth = <<>>

InitLocals ==
    /\ IdlePasses
    /\ first_run = None
    /\ adjacency = <<>>
    /\ visited = {}
    /\ rec_stack = {}
    /\ path_stack = <<>>
    /\ call_stack = <<>>
    /\ node_idx = 1
    /\ circular_deps = <<>>
    /\ module_coupling = <<>>

\* detect_circular_dependencies is about to run on a graph of at most size
\* nodes and edges together
InitWithin(size) ==
    /\ input = {}
    /\ data = {}
    /\ module_registry = <<>>
    /\ \E n \in 1..MaxNodes, k \in 0..MaxEdges :
         /\ n + k <= size
         /\ \E from \in [1..k -> 1..n] :
               /\ Grouped(from)
               /\ \E to \in [1..k -> 1..(n + 1)] : graph = GraphOf(n, from, to)
    /\ pc = "detect"
    /\ InitLocals
    /\ IdleBatch
    /\ IdleFunction
    /\ IdleGates

Init == InitWithin(MaxGraphSize)

Next ==
    \/ DetectStart
    \/ DetectLoop
    \/ DfsCall
    \/ DfsCycle
    \/ DfsSkip
    \/ DfsReturn
    \/ DetectEnd
    \/ FindUnusedExports
    \/ AnalyzeExternalDependencies
    \/ DepthsStart
    \/ DepthsStep
    \/ DepthsEnd
    \/ CalculateModuleCoupling

Spec == Init /\ [][Next]_vars

\* lines 142-171: the graph build_dependency_graph gives when the registry is
\* iterated in another order: the nodes in that order, the edges grouped by
\* their `from` in that order, those of one module in the order of its imports
RECURSIVE EdgesInOrder(_, _)
EdgesInOrder(edges, ids) ==
    IF ids = <<>> THEN <<>>
    ELSE LET From(e) == e.from = Head(ids) IN
         SelectSeq(edges, From) \o EdgesInOrder(edges, Tail(ids))

Reordered(g, order) ==
    [nodes |-> [i \in DOMAIN order |-> g.nodes[order[i]]],
     edges |-> EdgesInOrder(g.edges, [i \in DOMAIN order |-> g.nodes[order[i]].id])]

\* analyze has returned and is run once more on the same modules and imports;
\* the hash map of the registry is iterated in any order
AnalyzeAgain ==
    /\ pc = "done"
    /\ first_run = None
    /\ first_run' = Some([graph |-> graph, circular_dependencies |-> circular_deps])
    /\ \E order \in IterationOrders(DOMAIN graph.nodes) :
         graph' = Reordered(graph, order)
    /\ pc' = "detect"
    /\ UNCHANGED <<batchVars, astVars, gateVars, passVars, input, data, module_registry, dfsVars,
                   module_coupling>>

NextTwoRuns ==
    \/ Next
    \/ AnalyzeAgain

InitTwoRuns == InitWithin(MaxGraphSize - 2)

SpecTwoRuns == InitTwoRuns /\ [][NextTwoRuns]_vars

\* analyze runs on one thread that is never suspended for ever: whenever a
\* step of the passes is possible, one is taken
InitTerminating == InitWithin(MaxGraphSize - 1)

SpecTerminating == InitTerminating /\ [][Next]_vars /\ WF_vars(Next)

----------------------------------------------------------------------------
(* The passes over a module with many dependents and dependencies *)

CentreId == "A"

DependentId(i) == "I" \o ToString(i)

DependencyId(i) == "O" \o ToString(i)

\* a module imported by a modules and importing e modules, all distinct,
\* which imports itself when self is 1
StarGraph(a, e, self) ==
    [nodes |-> <<Node(CentreId)>>
                 \o [i \in 1..a |-> Node(DependentId(i))]
                 \o [i \in 1..e |-> Node(DependencyId(i))],
     edges |-> [i \in 1..e |-> Edge(CentreId, DependencyId(i))]
                 \o [i \in 1..self |-> Edge(CentreId, CentreId)]
                 \o [i \in 1..a |-> Edge(DependentId(i), CentreId)]]

InitCoupling ==
    /\ input = {}
    /\ data = {}
    /\ module_registry = <<>>
    /\ \E a \in 0..MaxCount, e \in 0..MaxCount, self \in 0..1 :
         graph = StarGraph(a, e, self)
    /\ pc = "detect"
    /\ InitLocals
    /\ IdleBatch
    /\ IdleFunction
    /\ IdleGates

SpecCoupling == InitCoupling /\ [][Next]_vars

----------------------------------------------------------------------------
(* analyze from its input: build_module_registry, build_dependency_graph *)

PathARs == <<"a", ".", "r", "s">>

PathBRs == <<"b", ".", "r", "s">>

PathCrateARs == <<"c", "r", "a", "t", "e", "/", "a", ".", "r", "s">>

PathCrateBRs == <<"c", "r", "a", "t", "e", "/", "b", ".", "r", "s">>

PathAPy == <<"a", ".", "p", "y">>

CrateA == <<"c", "r", "a", "t", "e", ":", ":", "a">>

CrateB == <<"c", "r", "a", "t", "e", ":", ":", "b">>

Serde == <<"s", "e", "r", "d", "e">>

ModA == <<"a">>

ModB == <<"b">>

\* the files analyze may be given: path and language
FileCatalogue ==
    { <<PathARs, "Rust">>, <<PathBRs, "Rust">>, <<PathCrateARs, "Rust">>,
      <<PathCrateBRs, "Rust">>, <<PathAPy, "Python">> }

\* ImportInfo
Import(module_path, imported_names) ==
    [module_path |-> module_path, imported_names |-> imported_names,
     is_default |-> FALSE]

ImportCatalogue ==
    { Import(CrateA, <<>>), Import(CrateB, <<"f">>), Import(Serde, <<"Serialize">>) }

SeqsUpTo(S, n) == UNION { [1..k -> S] : k \in 0..n }

RECURSIVE SumLen(_, _)
SumLen(f, D) ==
    IF D = {} THEN 0
    ELSE LET d == CHOOSE x \in D : TRUE IN Len(f[d]) + SumLen(f, D \ {d})

\* an entry of the argument of analyze: PathBuf -> (Language, ImportExportAnalysis)
FileEntry(file, imports) ==
    [file_path |-> file[1], language |-> file[2], imports |-> imports,
     exports |-> <<>>]

\* lines 113-120
ExternalDependencies(imports, language) ==
    { imports[i].module_path :
        i \in { j \in DOMAIN imports :
                  IsExternalDependency(imports[j].module_path, language) } }

\* lines 122-129
ModuleInfo(entry, module_name) ==
    [file_path |-> entry.file_path,
     module_name |-> module_name,
     language |-> entry.language,
     imports |-> entry.imports,
     exports |-> entry.exports,
     external_dependencies |-> ExternalDependencies(entry.imports, entry.language)]

\* lines 110-132: one iteration of the loop over the input, in any order
BuildModuleRegistryStep ==
    /\ pc = "registry"
    /\ \E entry \in data :
         LET module_name == PathToModuleName(entry.file_path, entry.language) IN
         /\ module_registry' =
              Insert(module_registry, module_name, ModuleInfo(entry, module_name))
         /\ data' = data \ {entry}
    /\ UNCHANGED <<otherVars, input, graph, pc, dfsVars, module_coupling>>

\* lines 144-150
NodeOf(module_name, module_info) ==
    [id |-> module_name,
     file_path |-> module_info.file_path,
     module_name |-> module_name,
     exports |-> module_info.exports]

\* lines 160-166
ImportTypeOf(import) ==
    IF import.is_default THEN "Default"
    ELSE IF import.imported_names = <<>> THEN "Namespace"
    ELSE "Named"

\* lines 155-171: the edges of one module, one per import that resolves
RECURSIVE EdgesOf(_, _, _)
EdgesOf(module_name, language, imports) ==
    IF imports = <<>> THEN <<>>
    ELSE LET import == Head(imports)
             target == ResolveImportToModule(import.module_path, language)
         IN  (IF target = None THEN <<>>
              ELSE << [from |-> module_name,
                       to |-> CHOOSE t \in target : TRUE,
                       import_type |-> ImportTypeOf(import),
                       imported_symbols |-> import.imported_names] >>)
             \o EdgesOf(module_name, language, Tail(imports))

RECURSIVE AllEdges(_, _)
AllEdges(registry, order) ==
    IF order = <<>> THEN <<>>
    ELSE LET m == Head(order) IN
         EdgesOf(m, registry[m].language, registry[m].imports)
            \o AllEdges(registry, Tail(order))

\* lines 138-175: the registry is iterated twice, in one and the same order
BuildDependencyGraph ==
    /\ pc = "registry"
    /\ data = {}
    /\ \E order \in IterationOrders(DOMAIN module_registry) :
         graph' = [nodes |-> [i \in DOMAIN order |->
                                NodeOf(order[i], module_registry[order[i]])],
                   edges |-> AllEdges(module_registry, order)]
    /\ pc' = "detect"
    /\ UNCHANGED <<otherVars, input, data, module_registry, dfsVars, module_coupling>>

InitAnalyze ==
    /\ \E files \in SUBSET FileCatalogue :
         /\ Cardinality(files) <= MaxFiles
         /\ \E imports \in [files -> SeqsUpTo(ImportCatalogue, MaxImports)] :
              /\ SumLen(imports, files) <= MaxImports
              /\ input = { FileEntry(f, imports[f]) : f \in files }
    /\ data = input
    /\ module_registry = <<>>
    /\ graph = EmptyGraph
    /\ pc = "registry"
    /\ InitLocals
    /\ IdleBatch
    /\ IdleFunction
    /\ IdleGates

NextAnalyze ==
    \/ BuildModuleRegistryStep
    \/ BuildDependencyGraph
    \/ DetectStart
    \/ DetectLoop
    \/ DfsCall
    \/ DfsCycle
    \/ DfsSkip
    \/ DfsReturn
    \/ DetectEnd
    \/ FindUnusedExports
    \/ AnalyzeExternalDependencies
    \/ DepthsStart
    \/ DepthsStep
    \/ DepthsEnd
    \/ CalculateModuleCoupling

SpecAnalyze == InitAnalyze /\ [][NextAnalyze]_vars

----------------------------------------------------------------------------
(* analyzers/mod.rs: aggregate_results and AnalysisResults *)

\* a function of a ParsedFile, as add_file reads it
FunctionInfo(name, complexity, line_start) ==
    [name |-> name, complexity |-> complexity, line_start |-> line_start,
     parameters |-> 0]

ParsedFile(path, functions) == [path |-> path, functions |-> functions]

\* AnalysisResults::new
NewResults ==
    [files_analyzed |-> 0,
     total_lines |-> 0,
     total_functions |-> 0,
     average_complexity |-> F64Zero,
     high_complexity_functions |-> <<>>,
     language_breakdown |-> <<>>,
     complexity_distribution |-> <<>>,
     errors |-> <<>>]

\* LanguageStats::default
DefaultStats == [files |-> 0, functions |-> 0]

\* or_insert that forgets the entry the map already has
EntryOrInsertFresh(map, key, value) == value

\* HashMap::entry(key).or_insert(value), read
EntryOrInsert(map, key, value) == IF key \in DOMAIN map THEN map[key] ELSE value

HighComplexityFunction(function, file_path) ==
    [name |-> function.name, file_path |-> file_path,
     complexity |-> function.complexity, line_start |-> function.line_start,
     parameters |-> function.parameters]

\* add_file, lines 204-221: the loop over the functions from function i on
RECURSIVE AddFunctions(_, _, _, _)
AddFunctions(res, language, parsed_file, i) ==
    IF i > Len(parsed_file.functions) THEN res
    ELSE LET function == parsed_file.functions[i]
             stats == res.language_breakdown[language]
             count == EntryOrInsert(res.complexity_distribution, function.complexity, 0)
         IN  AddFunctions(
                 [res EXCEPT
                    !.total_functions = @ + 1,
                    !.language_breakdown =
                        Insert(@, language, [stats EXCEPT !.functions = @ + 1]),
                    !.complexity_distribution =
                        Insert(@, function.complexity, count + 1),
                    !.high_complexity_functions =
                        IF function.complexity >= 10
                        THEN Append(@, HighComplexityFunction(function, parsed_file.path))
                        ELSE @],
                 language, parsed_file, i + 1)

\* add_file
AddFile(res, parsed_file) ==
    LET language == DetectLanguage(parsed_file.path)
        stats == EntryOrInsert(res.language_breakdown, language, DefaultStats)
    IN  AddFunctions(
            [res EXCEPT
               !.files_analyzed = @ + 1,
               !.language_breakdown =
                   Insert(@, language, [stats EXCEPT !.files = @ + 1])],
            language, parsed_file, 1)

\* the sum of complexity * count over complexity_distribution
RECURSIVE TotalComplexity(_, _)
TotalComplexity(distribution, keys) ==
    IF keys = {} THEN 0
    ELSE LET complexity == CHOOSE k \in keys : TRUE IN
         complexity * distribution[complexity]
             + TotalComplexity(distribution, keys \ {complexity})

\* slice::sort_by(|a, b| b.complexity.cmp(&a.complexity)): a stable sort,
\* here by insertion of the last element into the sorted rest
RECURSIVE SortByComplexityDescending(_)
SortByComplexityDescending(v) ==
    IF Len(v) <= 1 THEN v
    ELSE LET sorted == SortByComplexityDescending(SubSeq(v, 1, Len(v) - 1))
             last == v[Len(v)]
             before == { i \in DOMAIN sorted : sorted[i].complexity >= last.complexity }
         IN  SubSeq(sorted, 1, Cardinality(before))
                 \o <<last>>
                 \o SubSeq(sorted, Cardinality(before) + 1, Len(sorted))

\* finalize dividing by the number of files
FinalizeByFiles(res) ==
    [res EXCEPT
       !.average_complexity =
           IF res.files_analyzed > 0
           THEN F64Div(TotalComplexity(res.complexity_distribution,
                                       DOMAIN res.complexity_distribution),
                       res.files_analyzed)
           ELSE @,
       !.high_complexity_functions = SortByComplexityDescending(@)]

\* finalize
Finalize(res) ==
    [res EXCEPT
       !.average_complexity =
           IF res.total_functions > 0
           THEN F64Div(TotalComplexity(res.complexity_distribution,
                                       DOMAIN res.complexity_distribution),
                       res.total_functions)
           ELSE @,
       !.high_complexity_functions = SortByComplexityDescending(@)]

----------------------------------------------------------------------------
(* analyze_path over the entries of a walk *)

\* an entry of the walk: its path, what the file system says of it, the
\* number of lines of its content and what reading and parsing it gives
DirEntry(path, is_file, len, lines, outcome) ==
    [path |-> path, is_file |-> is_file, metadata |-> Some(len),
     lines |-> lines, outcome |-> outcome]

\* std::fs::read_to_string failed, with the context of line 76
ReadError(path) == Err(<<"Failed to read file: ">> \o path)

\* parse_file failed
ParseError == Err(<<"parse error">>)

DataBin == <<"d", "a", "t", "a", ".", "b", "i", "n">>

\* what the walk can yield besides source files that are analysed:
\* a directory, a file that is too large, an excluded path, a test file,
\* a file without extension and one with an unsupported extension
OtherEntries ==
    { DirEntry(<<"s", "r", "c">>, FALSE, 4096, 0, ReadError(<<"s", "r", "c">>)),
      DirEntry(<<"b", "i", "g", ".", "r", "s">>, TRUE, 1024 * 1024 + 1, 3, Ok(ParsedFile(<<"b", "i", "g", ".", "r", "s">>, <<>>))),
      DirEntry(<<"n", "o", "d", "e", "_", "m", "o", "d", "u", "l", "e", "s", "/", "x", ".", "j", "s">>, TRUE, 10, 1, Ok(ParsedFile(<<"n", "o", "d", "e", "_", "m", "o", "d", "u", "l", "e", "s", "/", "x", ".", "j", "s">>, <<>>))),
      DirEntry(<<"a", "_", "t", "e", "s", "t", ".", "r", "s">>, TRUE, 10, 1, Ok(ParsedFile(<<"a", "_", "t", "e", "s", "t", ".", "r", "s">>, <<>>))),
      DirEntry(<<"R", "E", "A", "D", "M", "E">>, TRUE, 10, 1, ParseError),
      DirEntry(DataBin, TRUE, 10, 1, ParseError) }

\* the source files and the number of lines of each
SourcePaths == { <<<<"a", ".", "r", "s">>, 3>>, <<<<"b", ".", "p", "y">>, 0>> }

Complexities == {1, 10, 11}

\* the functions a parsed file can have: the i-th one starts at line i
FunctionLists ==
    { [i \in DOMAIN cs |-> FunctionInfo("f" \o ToString(i), cs[i], i)] :
        cs \in SeqsUpTo(Complexities, MaxFunctions) }

\* what reading and parsing a source file can give
OutcomesOf(path) ==
    {ReadError(path), ParseError}
        \cup { Ok(ParsedFile(path, fs)) : fs \in FunctionLists }

\* what the walk can yield at one step: an error, one of the other entries,
\* or a source file with one of its outcomes
WalkSlots ==
    { {Err(<<"walk error">>)} }
        \cup { {Ok(e)} : e \in OtherEntries }
        \cup { { Ok(DirEntry(p[1], TRUE, 10, p[2], outcome)) :
                   outcome \in OutcomesOf(p[1]) } : p \in SourcePaths }

\* the walks that take one result from each slot, in order
RECURSIVE Walks(_)
Walks(slots) ==
    IF slots = <<>> THEN { <<>> }
    ELSE { <<first>> \o rest : first \in Head(slots), rest \in Walks(Tail(slots)) }

\* the state of the dependency analysis
dependencyVars == <<input, data, module_registry, graph, dfsVars, module_coupling,
                    passVars, first_run>>

depVars == <<dependencyVars, gateVars>>

\* no dependency analysis is running
IdleDependencies ==
    /\ input = {}
    /\ data = {}
    /\ module_registry = <<>>
    /\ graph = EmptyGraph
    /\ InitLocals

InitBatch ==
    /\ IdleDependencies
    /\ IdleFunction
    /\ IdleGates
    /\ config = DefaultConfig
    /\ \E k \in 0..MaxEntries :
         \E slots \in [1..k -> WalkSlots] :
            /\ \A i, j \in 1..k : slots[i] = slots[j] => i = j
            /\ \E walk \in Walks(slots) : entries = walk
    /\ discovered_files = <<>>
    /\ parsed_files = <<>>
    /\ parsed_idx = 1
    /\ results = None
    /\ returned = None
    /\ collected = <<>>
    /\ finished = <<>>
    /\ pc = "discover"

\* line 58
DiscoverFilesStep ==
    /\ pc = "discover"
    /\ LET found == DiscoverFiles(config, entries) IN
       IF found.ok
       THEN /\ discovered_files' = found.value
            /\ pc' = "parse"
            /\ UNCHANGED returned
       ELSE /\ returned' = Some(found)
            /\ pc' = "returned"
            /\ UNCHANGED discovered_files
    /\ UNCHANGED <<depVars, astVars, workerVars, entries, config, parsed_files, parsed_idx, results>>

\* the entry of the walk with this path
EntryAt(path) ==
    LET i == CHOOSE j \in DOMAIN entries :
                 entries[j].ok /\ entries[j].value.path = path
    IN  entries[i].value

\* lines 69-80: every discovered file is read and parsed, the results are
\* collected in the order of the files
ParseFiles ==
    /\ pc = "parse"
    /\ parsed_files' =
         [i \in DOMAIN discovered_files |-> EntryAt(discovered_files[i]).outcome]
    /\ pc' = "aggregate"
    /\ UNCHANGED <<depVars, astVars, workerVars, entries, config, discovered_files, parsed_idx,
                   results, returned>>

\* line 151
AggregateStart ==
    /\ pc = "aggregate"
    /\ results' = NewResults
    /\ parsed_idx' = 1
    /\ pc' = "add"
    /\ UNCHANGED <<depVars, astVars, workerVars, entries, config, discovered_files, parsed_files,
                   returned>>

\* lines 155-157
AggregateOk ==
    /\ pc = "add"
    /\ parsed_idx <= Len(parsed_files)
    /\ parsed_files[parsed_idx].ok
    /\ results' = AddFile(results, parsed_files[parsed_idx].value)
    /\ parsed_idx' = parsed_idx + 1
    /\ UNCHANGED <<depVars, astVars, workerVars, entries, config, discovered_files, parsed_files,
                   returned, pc>>

\* a failed file ends the batch with its error
AggregateErrAborts ==
    /\ pc = "add"
    /\ parsed_idx <= Len(parsed_files)
    /\ ~parsed_files[parsed_idx].ok
    /\ returned' = Some(Err(parsed_files[parsed_idx].error))
    /\ pc' = "returned"
    /\ UNCHANGED <<depVars, astVars, workerVars, entries, config, discovered_files, parsed_files,
                   parsed_idx, results>>

\* lines 158-161
AggregateErr ==
    /\ pc = "add"
    /\ parsed_idx <= Len(parsed_files)
    /\ ~parsed_files[parsed_idx].ok
    /\ results' = [results EXCEPT !.errors = Append(@, parsed_files[parsed_idx].error)]
    /\ parsed_idx' = parsed_idx + 1
    /\ UNCHANGED <<depVars, astVars, workerVars, entries, config, discovered_files, parsed_files,
                   returned, pc>>

\* lines 165-166 and line 84
AggregateEnd ==
    /\ pc = "add"
    /\ parsed_idx > Len(parsed_files)
    /\ results' = Finalize(results)
    /\ returned' = Some(Ok(results'))
    /\ pc' = "returned"
    /\ UNCHANGED <<depVars, astVars, workerVars, entries, config, discovered_files, parsed_files,
                   parsed_idx>>

NextBatch ==
    \/ DiscoverFilesStep
    \/ ParseFiles
    \/ AggregateStart
    \/ AggregateOk
    \/ AggregateErr
    \/ AggregateEnd

SpecBatch == InitBatch /\ [][NextBatch]_vars

----------------------------------------------------------------------------
(* analyze_path over one file with many functions *)

LibRs == <<"l", "i", "b", ".", "r", "s">>

ModPy == <<"m", "o", "d", ".", "p", "y">>

\* the file lib.rs with up to MaxFileFunctions functions, alone or followed
\* by a file that cannot be read
InitLongFile ==
    /\ IdleDependencies
    /\ IdleFunction
    /\ IdleGates
    /\ config = DefaultConfig
    /\ \E cs \in SeqsUpTo(Complexities, MaxFileFunctions) :
         LET functions == [i \in DOMAIN cs |-> FunctionInfo("f" \o ToString(i), cs[i], i)]
             long == Ok(DirEntry(LibRs, TRUE, 10, Len(cs) + 1,
                                 Ok(ParsedFile(LibRs, functions))))
             unread == Ok(DirEntry(ModPy, TRUE, 10, 1, ReadError(ModPy)))
         IN  entries \in { <<long>>, <<long, unread>> }
    /\ discovered_files = <<>>
    /\ parsed_files = <<>>
    /\ parsed_idx = 1
    /\ results = None
    /\ returned = None
    /\ collected = <<>>
    /\ finished = <<>>
    /\ pc = "discover"

SpecLongFile == InitLongFile /\ [][NextBatch]_vars

-----------------------------------------------------------------------------
(***************************************************************************)
(* analyze_path, lines 69-80: the workers of the parallel iterator.  Each  *)
(* discovered file is read and parsed by one worker; the workers share no  *)
(* state, finish in any order, and collect() puts the result of the i-th   *)
(* file at index i once every worker has finished.                         *)
(***************************************************************************)

\* the source files the workers are given
WorkerPaths == { p[1] : p \in SourcePaths } \cup {LibRs}

\* what a worker can get from its file
WorkerOutcomesOf(path) ==
    {ReadError(path), ParseError, Ok(ParsedFile(path, <<>>)),
     Ok(ParsedFile(path, <<FunctionInfo("f1", 11, 1)>>))}

InitParallel ==
    /\ IdleDependencies
    /\ IdleFunction
    /\ IdleGates
    /\ config = DefaultConfig
    /\ \E k \in 0..MaxEntries :
         \E paths \in [1..k -> WorkerPaths] :
            /\ \A i, j \in 1..k : paths[i] = paths[j] => i = j
            /\ \E outcomes \in [1..k -> UNION { WorkerOutcomesOf(p) : p \in WorkerPaths }] :
                  /\ \A i \in 1..k : outcomes[i] \in WorkerOutcomesOf(paths[i])
                  /\ entries = [i \in 1..k |->
                                   Ok(DirEntry(paths[i], TRUE, 10, 1, outcomes[i]))]
    /\ discovered_files = <<>>
    /\ parsed_files = <<>>
    /\ parsed_idx = 1
    /\ results = None
    /\ returned = None
    /\ collected = <<>>
    /\ finished = <<>>
    /\ pc = "discover"

\* lines 71-79: the worker of the i-th file finishes
ParseFile(i) ==
    /\ pc = "parse"
    /\ i \in DOMAIN discovered_files
    /\ i \notin DOMAIN collected
    /\ collected' = [j \in DOMAIN collected \cup {i} |->
                        IF j = i THEN EntryAt(discovered_files[i]).outcome
                        ELSE collected[j]]
    /\ finished' = Append(finished, i)
    /\ UNCHANGED <<depVars, astVars, entries, config, discovered_files, parsed_files,
                   parsed_idx, results, returned, pc>>

\* the results are taken in the order in which the workers finished
CollectAsFinished ==
    /\ pc = "parse"
    /\ DOMAIN collected = DOMAIN discovered_files
    /\ parsed_files' = [k \in DOMAIN finished |-> collected[finished[k]]]
    /\ pc' = "aggregate"
    /\ UNCHANGED <<depVars, astVars, workerVars, entries, config, discovered_files,
                   parsed_idx, results, returned>>

\* line 80: collect() waits for every worker and keeps the order of the files
Collect ==
    /\ pc = "parse"
    /\ DOMAIN collected = DOMAIN discovered_files
    /\ parsed_files' = [i \in DOMAIN discovered_files |-> collected[i]]
    /\ pc' = "aggregate"
    /\ UNCHANGED <<depVars, astVars, workerVars, entries, config, discovered_files,
                   parsed_idx, results, returned>>

NextParallel ==
    \/ DiscoverFilesStep
    \/ \E i \in DOMAIN discovered_files : ParseFile(i)
    \/ Collect
    \/ AggregateStart
    \/ AggregateOk
    \/ AggregateErr
    \/ AggregateEnd

SpecParallel == InitParallel /\ [][NextParallel]_vars

-----------------------------------------------------------------------------
(* The functions and files that are measured *)

Identifier == Token("identifier")

IntegerLiteral == Token("integer_literal")

\* x > 0
Comparison == Tree("binary_expression", <<Identifier, Token(">"), IntegerLiteral>>)

\* { e } in Rust
Block(e) == Tree("block", <<Token("{"), e, Token("}")>>)

\* if c { .. } else { .. } in Rust.  The grammar of tree-sitter-rust wraps
\* the else branch in an else_clause node; before it had that node, the
\* keyword and the block were children of the if_expression.
IfExpression(consequence, alternative, else_clause) ==
    Tree("if_expression",
         <<Token("if"), Comparison, consequence>>
             \o (IF else_clause
                 THEN <<Tree("else_clause", <<Token("else"), alternative>>)>>
                 ELSE <<Token("else"), alternative>>))

\* fn f(x: i32) -> i32 { if x > 0 { if x > 10 { x } else { 0 } } else { -x } }
NestedIfFunction(else_clause) ==
    Tree("function_item",
         <<Token("fn"), Identifier,
           Tree("parameters",
                <<Token("("),
                  Tree("parameter", <<Identifier, Token(":"), Token("primitive_type")>>),
                  Token(")")>>),
           Token("->"), Token("primitive_type"),
           Block(IfExpression(
                     Block(IfExpression(Block(Identifier), Block(IntegerLiteral),
                                        else_clause)),
                     Block(Tree("unary_expression", <<Token("-"), Identifier>>)),
                     else_clause))>>)

NestedIfFunctions == { NestedIfFunction(else_clause) : else_clause \in BOOLEAN }

\* g(); in JavaScript
CallStatement ==
    Tree("expression_statement",
         <<Tree("call_expression",
                <<Identifier, Tree("arguments", <<Token("("), Token(")")>>)>>),
           Token(";")>>)

\* { s } in JavaScript
StatementBlock(s) == Tree("statement_block", <<Token("{"), s, Token("}")>>)

\* function f() { try { g(); } finally { h(); } }
TryFinallyFunction ==
    Tree("function_declaration",
         <<Token("function"), Identifier,
           Tree("formal_parameters", <<Token("("), Token(")")>>),
           StatementBlock(
               Tree("try_statement",
                    <<Token("try"), StatementBlock(CallStatement),
                      Tree("finally_clause",
                           <<Token("finally"), StatementBlock(CallStatement)>>)>>))>>)

\* the body of a Rust function that is n if blocks, one inside the previous
RECURSIVE RustNestedIfBlock(_)
RustNestedIfBlock(n) ==
    IF n = 0 THEN Tree("block", <<Token("{"), Token("}")>>)
    ELSE Block(Tree("if_expression",
                    <<Token("if"), Comparison, RustNestedIfBlock(n - 1)>>))

\* fn f() { if x > 0 { if x > 0 { .. } } }
RustNestedIfs(n) ==
    Tree("function_item",
         <<Token("fn"), Identifier,
           Tree("parameters", <<Token("("), Token(")")>>),
           RustNestedIfBlock(n)>>)

\* the same body in JavaScript
RECURSIVE JsNestedIfBlock(_)
JsNestedIfBlock(n) ==
    IF n = 0 THEN Tree("statement_block", <<Token("{"), Token("}")>>)
    ELSE StatementBlock(
             Tree("if_statement",
                  <<Token("if"),
                    Tree("parenthesized_expression",
                         <<Token("("), Comparison, Token(")")>>),
                    JsNestedIfBlock(n - 1)>>))

\* function f() { if (x > 0) { if (x > 0) { .. } } }
JsNestedIfs(n) ==
    Tree("function_declaration",
         <<Token("function"), Identifier,
           Tree("formal_parameters", <<Token("("), Token(")")>>),
           JsNestedIfBlock(n)>>)

\* x > 0 && x > 0, x > 0 || x > 0
LogicalOperators == {"&&", "||"}

Logical(operator) ==
    Tree("binary_expression", <<Comparison, Token(operator), Comparison>>)

\* fn f() { if x > 0 && x > 0 { } }
RustLogicalIf(operator) ==
    Tree("function_item",
         <<Token("fn"), Identifier,
           Tree("parameters", <<Token("("), Token(")")>>),
           Block(Tree("if_expression",
                      <<Token("if"), Logical(operator), RustNestedIfBlock(0)>>))>>)

\* function f() { if (x > 0 && x > 0) { } }
JsLogicalIf(operator) ==
    Tree("function_declaration",
         <<Token("function"), Identifier,
           Tree("formal_parameters", <<Token("("), Token(")")>>),
           StatementBlock(
               Tree("if_statement",
                    <<Token("if"),
                      Tree("parenthesized_expression",
                           <<Token("("), Logical(operator), Token(")")>>),
                      JsNestedIfBlock(0)>>))>>)

\* fn f() { if x { } }: a condition without operator
RustIfOnName ==
    Tree("function_item",
         <<Token("fn"), Identifier,
           Tree("parameters", <<Token("("), Token(")")>>),
           Block(Tree("if_expression",
                      <<Token("if"), Identifier, RustNestedIfBlock(0)>>))>>)

\* the file of one function
SourceFile(function) == Tree("source_file", <<function>>)

\* the kinds of the nodes of the small trees: statements of JavaScript, the
\* keywords, punctuation and expressions under them left out
StatementKinds ==
    {"statement_block", "if_statement", "while_statement", "for_statement",
     "try_statement", "switch_statement", "binary_expression",
     "return_statement"}

\* the positions of node i and of its ancestors, parents[j] being the
\* parent of node j and 0 the parent of the root
RECURSIVE PathToRoot(_, _)
PathToRoot(parents, i) ==
    IF i = 0 THEN {} ELSE {i} \cup PathToRoot(parents, parents[i])

\* the parents are those of a tree in the order of a TreeCursor: node 1 is
\* the root, a further node is under the node before it or under one of
\* the ancestors of that node
InCursorOrder(parents) ==
    /\ \A i \in DOMAIN parents : parents[i] < i
    /\ \A i \in DOMAIN parents :
           i > 1 => parents[i] \in PathToRoot(parents, i - 1)

\* t is a tree of up to MaxTreeNodes nodes: statements under a
\* function_declaration
IsSmallTree(t) ==
    \E n \in 1..MaxTreeNodes :
        \E parents \in [1..n -> 0..(n - 1)] :
            /\ InCursorOrder(parents)
            /\ \E kinds \in [2..n -> StatementKinds] :
                   t = [i \in 1..n |->
                           [kind |-> IF i = 1 THEN "function_declaration" ELSE kinds[i],
                            parent |-> parents[i]]]

\* the file of that Rust function, on one line
NestedIfSource ==
    <<
      <<"f", "n", " ", "f", "(", "x", ":", " ", "i", "3", "2", ")", " ", "-",
        ">", " ", "i", "3", "2", " ", "{", " ", "i", "f", " ", "x", " ", ">",
        " ", "0", " ", "{", " ", "i", "f", " ", "x", " ", ">", " ", "1", "0",
        " ", "{", " ", "x", " ", "}", " ", "e", "l", "s", "e", " ", "{", " ",
        "0", " ", "}", " ", "}", " ", "e", "l", "s", "e", " ", "{", " ", "-",
        "x", " ", "}", " ", "}">>
    >>

\* the same function, one construct per line
NestedIfSourceOnLines ==
    <<
      <<"f", "n", " ", "f", "(", "x", ":", " ", "i", "3", "2", ")", " ", "-",
        ">", " ", "i", "3", "2", " ", "{">>,
      <<" ", " ", "i", "f", " ", "x", " ", ">", " ", "0", " ", "{">>,
      <<" ", " ", " ", " ", "i", "f", " ", "x", " ", ">", " ", "1", "0", " ",
        "{">>,
      <<" ", " ", " ", " ", " ", " ", "x">>,
      <<" ", " ", " ", " ", "}", " ", "e", "l", "s", "e", " ", "{">>,
      <<" ", " ", " ", " ", " ", " ", "0">>,
      <<" ", " ", " ", " ", "}">>,
      <<" ", " ", "}", " ", "e", "l", "s", "e", " ", "{">>,
      <<" ", " ", " ", " ", "-", "x">>,
      <<" ", " ", "}">>,
      <<"}">>
    >>

\* simple_code of tests::test_complexity_calculation
SimpleSource ==
    <<
      <<>>,
      <<" ", " ", "f", "n", " ", "s", "i", "m", "p", "l", "e", "(", ")", " ",
        "{">>,
      <<" ", " ", " ", " ", "p", "r", "i", "n", "t", "l", "n", "!", "(",
        "\"", "H", "e", "l", "l", "o", "\"", ")", ";">>,
      <<" ", " ", "}">>,
      <<>>
    >>

\* the file of the JavaScript function
TryFinallySource ==
    <<
      <<"f", "u", "n", "c", "t", "i", "o", "n", " ", "f", "(", ")", " ", "{",
        " ", "t", "r", "y", " ", "{", " ", "g", "(", ")", ";", " ", "}", " ",
        "f", "i", "n", "a", "l", "l", "y", " ", "{", " ", "h", "(", ")", ";",
        " ", "}", " ", "}">>
    >>

Sources == {NestedIfSource, NestedIfSourceOnLines, SimpleSource, TryFinallySource}

\* analyze_single_function is about to measure a function, or analyze_file
\* of analyzer.rs a file
InitComplexity ==
    /\ IdleDependencies
    /\ IdleBatch
    /\ IdleGates
    /\ \/ /\ \/ IsSmallTree(tree)
             \/ tree \in NestedIfFunctions
             \/ tree = TryFinallyFunction
             \/ \E n \in 0..MaxNesting : tree \in {RustNestedIfs(n), JsNestedIfs(n)}
             \/ \E operator \in LogicalOperators :
                    tree \in {RustLogicalIf(operator), JsLogicalIf(operator)}
          /\ content = <<>>
          /\ pc = "function"
       \/ /\ \/ \E n \in 0..MaxNesting : tree = SourceFile(RustNestedIfs(n))
             \/ \E operator \in LogicalOperators :
                    tree = SourceFile(RustLogicalIf(operator))
             \/ tree \in {SourceFile(RustIfOnName), SourceFile(NestedIfFunction(TRUE))}
          /\ content = <<>>
          /\ pc = "tree"
       \/ /\ tree = <<>>
          /\ content \in Sources
          /\ pc = "file"
    /\ cyclomatic_complexity = 0
    /\ nesting_depth = 0
    /\ basic_complexity = 0
    /\ parser_complexity = None

\* analyze_single_function, line 136
CyclomaticComplexityStep ==
    /\ pc = "function"
    /\ cyclomatic_complexity' = CalculateCyclomaticComplexity(tree)
    /\ pc' = "depth"
    /\ UNCHANGED <<depVars, batchVars, tree, nesting_depth, content, basic_complexity,
                   parser_complexity>>

\* analyze_single_function, line 139
NestingDepthStep ==
    /\ pc = "depth"
    /\ nesting_depth' = CalculateNestingDepth(tree)
    /\ pc' = "measured"
    /\ UNCHANGED <<depVars, batchVars, tree, cyclomatic_complexity, content,
                   basic_complexity, parser_complexity>>

\* analyzer.rs analyze_file, line 186
BasicComplexityStep ==
    /\ pc = "file"
    /\ basic_complexity' = CalculateBasicComplexity(content)
    /\ pc' = "counted"
    /\ UNCHANGED <<depVars, batchVars, tree, cyclomatic_complexity, nesting_depth,
                   content, parser_complexity>>

\* parsers.rs, RustParser::calculate_complexity
CalculateComplexityStep ==
    /\ pc = "tree"
    /\ parser_complexity' = Some(CalculateComplexity(tree))
    /\ pc' = "parsed"
    /\ UNCHANGED <<depVars, batchVars, tree, cyclomatic_complexity, nesting_depth,
                   content, basic_complexity>>

NextComplexity ==
    \/ CyclomaticComplexityStep
    \/ NestingDepthStep
    \/ BasicComplexityStep
    \/ CalculateComplexityStep

SpecComplexity == InitComplexity /\ [][NextComplexity]_vars

-----------------------------------------------------------------------------
(***************************************************************************)
(* ci_integration.rs: the quality gates.  The f64 values of thresholds and *)
(* metrics are whole numbers, which f64 holds and compares exactly.        *)
(***************************************************************************)

QualityMetrics ==
    {"CyclomaticComplexity", "TechnicalDebt", "TestCoverage", "DuplicationRatio",
     "SecurityVulnerabilities", "DependencyFreshness"}

ComparisonOperators ==
    {"LessThan", "GreaterThan", "Equal", "LessThanOrEqual", "GreaterThanOrEqual"}

QualityGate(metric, threshold, operator) ==
    [name |-> metric, metric |-> metric, threshold |-> threshold,
     operator |-> operator]

\* the analysis results whose numbers are all v, with or without the optional ones
AnalysisResultsOf(v, present) ==
    [average_complexity |-> v,
     technical_debt_score |-> IF present THEN Some(v) ELSE None,
     test_coverage |-> IF present THEN Some(v) ELSE None,
     duplication_ratio |-> IF present THEN Some(v) ELSE None,
     security_issues |-> v,
     outdated_dependencies |-> v]

\* Option::unwrap_or
UnwrapOr(option, default) ==
    IF option = None THEN default ELSE CHOOSE v \in option : TRUE

\* lines 223-230
ActualValue(metric, results_of_analysis) ==
    CASE metric = "CyclomaticComplexity" -> results_of_analysis.average_complexity
      [] metric = "TechnicalDebt" -> UnwrapOr(results_of_analysis.technical_debt_score, 0)
      [] metric = "TestCoverage" -> UnwrapOr(results_of_analysis.test_coverage, 0)
      [] metric = "DuplicationRatio" -> UnwrapOr(results_of_analysis.duplication_ratio, 0)
      [] metric = "SecurityVulnerabilities" -> results_of_analysis.security_issues
      [] metric = "DependencyFreshness" -> results_of_analysis.outdated_dependencies

\* lines 232-241
GateStatus(operator, actual_value, threshold) ==
    CASE operator = "LessThan" -> IF actual_value < threshold THEN "Pass" ELSE "Fail"
      [] operator = "GreaterThan" -> IF actual_value > threshold THEN "Pass" ELSE "Fail"
      [] OTHER -> "Pass"

\* evaluate_gate
EvaluateGate(gate, results_of_analysis) ==
    LET actual_value == ActualValue(gate.metric, results_of_analysis) IN
    [gate_name |-> gate.name,
     metric |-> gate.metric,
     actual_value |-> actual_value,
     threshold |-> gate.threshold,
     status |-> GateStatus(gate.operator, actual_value, gate.threshold)]

\* lines 163-169
OverallStatusAfter(overall, status) ==
    CASE status = "Fail" -> "Fail"
      [] status = "Warning" /\ overall = "Pass" -> "Warning"
      [] OTHER -> overall

InitGates ==
    /\ IdleDependencies
    /\ IdleBatch
    /\ IdleFunction
    /\ \E k \in 0..MaxGates :
         \E metrics \in [1..k -> QualityMetrics] :
            \E thresholds \in [1..k -> 0..MaxValue] :
               \E operators \in [1..k -> ComparisonOperators] :
                  quality_gates =
                      [i \in 1..k |-> QualityGate(metrics[i], thresholds[i], operators[i])]
    /\ \E v \in 0..MaxValue, present \in BOOLEAN :
         analysis = Some(AnalysisResultsOf(v, present))
    /\ gate_idx = 1
    /\ gate_results = <<>>
    /\ overall_status = "Pass"
    /\ quality_report = None
    /\ pc = "execute"

\* lines 157-158
ExecuteQualityGatesStart ==
    /\ pc = "execute"
    /\ gate_results' = <<>>
    /\ overall_status' = "Pass"
    /\ gate_idx' = 1
    /\ pc' = "gates"
    /\ UNCHANGED <<dependencyVars, batchVars, astVars, quality_gates, analysis, quality_report>>

\* lines 160-172: one iteration of the loop over the gates
EvaluateGateStep ==
    /\ pc = "gates"
    /\ gate_idx <= Len(quality_gates)
    /\ LET result == EvaluateGate(quality_gates[gate_idx], CHOOSE a \in analysis : TRUE) IN
       /\ overall_status' = OverallStatusAfter(overall_status, result.status)
       /\ gate_results' = Append(gate_results, result)
    /\ gate_idx' = gate_idx + 1
    /\ UNCHANGED <<dependencyVars, batchVars, astVars, quality_gates, analysis, quality_report,
                   pc>>

\* lines 180-189: the report, its gate results and its overall status
ExecuteQualityGatesEnd ==
    /\ pc = "gates"
    /\ gate_idx > Len(quality_gates)
    /\ quality_report' =
         Some([gate_results |-> gate_results, overall_status |-> overall_status])
    /\ pc' = "reported"
    /\ UNCHANGED <<dependencyVars, batchVars, astVars, quality_gates, analysis, gate_idx,
                   gate_results, overall_status>>

NextGates ==
    \/ ExecuteQualityGatesStart
    \/ EvaluateGateStep
    \/ ExecuteQualityGatesEnd

SpecGates == InitGates /\ [][NextGates]_vars

----------------------------------------------------------------------------
(* Properties of the circular-dependency report *)

Range(seq) == { seq[i] : i \in DOMAIN seq }

\* detect_circular_dependencies has returned
Finished == pc \in {"unused", "external", "depths", "bfs", "coupling", "done"}

\* C1: every reported cycle is a cycle of the graph: each module of the
\* reported sequence has an edge to the module that follows it.
C1_ReportedCyclesAreCycles ==
    \A i \in DOMAIN circular_deps :
        LET c == circular_deps[i].cycle IN
        \A j \in 1..(Len(c) - 1) : HasEdge(graph, c[j], c[j + 1])

\* the graph has three nodes and exactly the edges a->b, b->c, c->a
IsThreeCycle(g) ==
    /\ Len(g.nodes) = 3
    /\ Len(g.edges) = 3
    /\ \E a, b, c \in NodeIds(g) :
         /\ a # b /\ b # c /\ a # c
         /\ HasEdge(g, a, b) /\ HasEdge(g, b, c) /\ HasEdge(g, c, a)

\* the only edge of the graph is a self-import
IsSelfImport(g) ==
    /\ Len(g.edges) = 1
    /\ g.edges[1].from = g.edges[1].to

\* C2: on the three-node cycle exactly one CircularDependency is reported,
\* over all three nodes and of severity Medium; on a lone self-import exactly
\* one, of severity Low.
C2_ThreeCycleMediumSelfImportLow ==
    /\ IsThreeCycle(graph) =>
         /\ Len(circular_deps) <= 1
         /\ Finished =>
              /\ Len(circular_deps) = 1
              /\ Range(circular_deps[1].cycle) = NodeIds(graph)
              /\ circular_deps[1].severity = "Medium"
    /\ IsSelfImport(graph) =>
         /\ Len(circular_deps) <= 1
         /\ Finished =>
              /\ Len(circular_deps) = 1
              /\ Range(circular_deps[1].cycle) = {graph.edges[1].from}
              /\ circular_deps[1].severity = "Low"

C2_Witness ==
    /\ pc = "done"
    /\ IsThreeCycle(graph)
    /\ Len(circular_deps) = 1

\* the files of the scenario: a.rs importing crate::b, b.rs importing crate::a
IsTwoFileScenario(files) ==
    /\ Cardinality(files) = 2
    /\ \E fa, fb \in files :
         /\ fa.file_path = PathARs /\ fa.language = "Rust"
         /\ Len(fa.imports) = 1 /\ fa.imports[1].module_path = CrateB
         /\ fb.file_path = PathBRs /\ fb.language = "Rust"
         /\ Len(fb.imports) = 1 /\ fb.imports[1].module_path = CrateA

\* C3: analyze of a.rs (use crate::b) and b.rs (use crate::a) returns exactly
\* one circular dependency, over the modules a and b, of severity Low.
C3_TwoFileCycleLow ==
    (IsTwoFileScenario(input) /\ pc = "done") =>
        /\ Len(circular_deps) = 1
        /\ Range(circular_deps[1].cycle) = {ModA, ModB}
        /\ circular_deps[1].severity = "Low"

\* the tier of a cycle of n modules
Tier(n) ==
    IF n <= 2 THEN "Low"
    ELSE IF n <= 4 THEN "Medium"
    ELSE "High"

\* C4: the severity of a reported cycle is the tier of the number of its
\* modules: Low up to 2, Medium for 3 or 4, High from 5.
C4_SeverityByModuleCount ==
    \A i \in DOMAIN circular_deps :
        circular_deps[i].severity =
            Tier(Cardinality(Range(circular_deps[i].cycle)))

Built == pc # "registry"

\* C5: both ends of every edge of a built graph are ids of its nodes.
C5_EdgesJoinNodes ==
    Built =>
        \A i \in DOMAIN graph.edges :
            /\ graph.edges[i].from \in NodeIds(graph)
            /\ graph.edges[i].to \in NodeIds(graph)

\* C6: an internal import of an analysed file M that resolves to the module
\* of an analysed file T gives an edge from the id of M to the id of T.
C6_ResolvedImportsHaveEdges ==
    Built =>
        \A m \in input, t \in input :
            \A i \in DOMAIN m.imports :
                ResolveImportToModule(m.imports[i].module_path, m.language)
                        = Some(PathToModuleName(t.file_path, t.language))
                    => HasEdge(graph,
                               PathToModuleName(m.file_path, m.language),
                               PathToModuleName(t.file_path, t.language))

\* the ids reached from the ids of S along edges of g
RECURSIVE ReachedFrom(_, _)
ReachedFrom(g, S) ==
    LET next == S \cup { g.edges[i].to :
                            i \in { j \in DOMAIN g.edges : g.edges[j].from \in S } }
    IN  IF next = S THEN S ELSE ReachedFrom(g, next)

\* a and b lie in one strongly connected component of g
SameComponent(g, a, b) ==
    a = b \/ (b \in ReachedFrom(g, {a}) /\ a \in ReachedFrom(g, {b}))

\* every module of the sequences c and d lies in one and the same component
InOneComponent(g, c, d) ==
    \A a, b \in Range(c) \cup Range(d) : SameComponent(g, a, b)

\* C7 as stated: no two reported cycles lie in the same strongly connected
\* component of the graph.
C7_OneCyclePerComponent ==
    \A i, j \in DOMAIN circular_deps :
        i # j => ~InOneComponent(graph, circular_deps[i].cycle,
                                 circular_deps[j].cycle)

\* iterations of the loop over graph.nodes begun so far
RootsTried == (node_idx - 1) + (IF call_stack # <<>> THEN 1 ELSE 0)

\* C7 as amended: at most one cycle is reported per DFS root, that is per
\* iteration of the loop over the nodes, so never more cycles than roots
\* tried and at most as many as the graph has nodes.
C7_OneCyclePerRoot ==
    /\ Len(circular_deps) <= RootsTried
    /\ Len(circular_deps) <= Len(graph.nodes)

\* a sequence of modules each of which has an edge to the next
FollowsEdges(g, c) == \A j \in 1..(Len(c) - 1) : HasEdge(g, c[j], c[j + 1])

\* two cycles of the graph that share no module and lie in one component
\* have been reported, from two roots
C7_Witness ==
    /\ pc = "done"
    /\ Len(circular_deps) = 2
    /\ FollowsEdges(graph, circular_deps[1].cycle)
    /\ FollowsEdges(graph, circular_deps[2].cycle)
    /\ Range(circular_deps[1].cycle) \cap Range(circular_deps[2].cycle) = {}
    /\ InOneComponent(graph, circular_deps[1].cycle, circular_deps[2].cycle)

\* C8: a built graph has one node per analysed file, under pairwise distinct
\* ids.
C8_OneNodePerFile ==
    Built =>
        /\ Len(graph.nodes) = Cardinality(input)
        /\ \A i, j \in DOMAIN graph.nodes :
               i # j => graph.nodes[i].id # graph.nodes[j].id

\* the entry of module_coupling reported for node id n, if any
CouplingOf(n) == { module_coupling[i] : i \in { j \in DOMAIN module_coupling :
                                                  module_coupling[j].module_name = n } }

\* C9: afferent_coupling is the number of distinct modules that depend on the
\* node, efferent_coupling the number of distinct modules it depends on.
C9_CouplingCountsDistinctModules ==
    pc = "done" =>
        \A n \in NodeIds(graph) : \A c \in CouplingOf(n) :
            /\ c.afferent_coupling =
                 Cardinality({ m \in NodeIds(graph) : HasEdge(graph, m, n) })
            /\ c.efferent_coupling =
                 Cardinality({ t \in NodeIds(graph) \cup {UnknownId} :
                                 HasEdge(graph, n, t) })

\* a <= b for natural numbers as binary digits, least significant first
BigLeq(a, b) ==
    \/ Len(a) < Len(b)
    \/ /\ Len(a) = Len(b)
       /\ LET differ == { i \in DOMAIN a : a[i] # b[i] } IN
          \/ differ = {}
          \/ a[CHOOSE i \in differ : \A j \in differ : j <= i] = 0

\* b + k for a small natural k
AddSmall(b, k) == Trim(MulSmall(b, 1, k))

\* x is a double nearest to e / t: |x - e / t| is at most half a unit in the
\* last place of x, that is |2 * m * t - e * 2^(1 - exp)| <= t for
\* x = m * 2^exp
IsNearestDouble(x, e, t) ==
    IF e = 0 THEN x = F64Zero
    ELSE /\ Len(x.bits) = F64Precision
         /\ x.bits[F64Precision] = 1
         /\ x.exp < 1
         /\ LET p == Trim(MulSmall(x.bits, 2 * t, 0))
                q == Zeros(1 - x.exp) \o BitsOf(e)
            IN  /\ BigLeq(p, AddSmall(q, t))
                /\ BigLeq(q, AddSmall(p, t))

\* C10 as stated: instability * (afferent + efferent) = efferent when
\* afferent + efferent > 0, instability = 0 when both are zero, and
\* 0 <= instability <= 1, the product being the f64 product.
C10_InstabilityTimesTotalIsEfferent ==
    pc = "done" =>
        \A i \in DOMAIN module_coupling :
            LET c == module_coupling[i]
                total == c.afferent_coupling + c.efferent_coupling
            IN  /\ total > 0 =>
                     F64MulNat(c.instability, total) = F64FromNat(c.efferent_coupling)
                /\ total = 0 => c.instability = F64Zero
                /\ F64LeqOne(c.instability)

\* C10: for every node, instability is the double nearest to
\* efferent / (afferent + efferent) when afferent + efferent > 0 and 0 when
\* both couplings are zero, and 0 <= instability <= 1.
C10_InstabilityIsNearestDouble ==
    pc = "done" =>
        \A i \in DOMAIN module_coupling :
            LET c == module_coupling[i]
                total == c.afferent_coupling + c.efferent_coupling
            IN  /\ total > 0 =>
                     IsNearestDouble(c.instability, c.efferent_coupling, total)
                /\ total = 0 => c.instability = F64Zero
                /\ F64LeqOne(c.instability)

\* a module with 7 dependents and 15 dependencies has been measured, and its
\* instability times 22 is not 15
C10_Witness ==
    /\ pc = "done"
    /\ \E i \in DOMAIN module_coupling :
         /\ module_coupling[i].afferent_coupling = 7
         /\ module_coupling[i].efferent_coupling = 15
         /\ F64MulNat(module_coupling[i].instability, 22) # F64FromNat(15)

----------------------------------------------------------------------------
(* Properties of the batch analysis *)

\* the results of the files that aggregate_results has gone through
Processed == SubSeq(parsed_files, 1, parsed_idx - 1)

Failed(r) == ~r.ok

Succeeded(r) == r.ok

\* the number of functions of the parsed files of a sequence of results
RECURSIVE FunctionsIn(_)
FunctionsIn(rs) ==
    IF rs = <<>> THEN 0
    ELSE (IF Head(rs).ok THEN Len(Head(rs).value.functions) ELSE 0)
             + FunctionsIn(Tail(rs))

\* the walk yielded an error: discover_files fails before any file is read
WalkFailed == \E i \in DOMAIN entries : ~entries[i].ok

Aggregating == pc = "add" \/ (pc = "returned" /\ ~WalkFailed)

\* C11: a failure in one file never aborts the batch: aggregate_results
\* returns Ok; after each result, files_analyzed is the number of successful
\* files so far, errors holds the error of each failed file so far, one
\* entry each and in their order, and the functions of every successful
\* file have been counted.
C11_FailuresDoNotAbortTheBatch ==
    /\ Aggregating =>
         LET failed == SelectSeq(Processed, Failed) IN
         /\ results.files_analyzed = Len(SelectSeq(Processed, Succeeded))
         /\ results.errors = [i \in DOMAIN failed |-> failed[i].error]
         /\ results.total_functions = FunctionsIn(Processed)
    /\ (pc = "returned" /\ ~WalkFailed) =>
         /\ parsed_idx = Len(parsed_files) + 1
         /\ \A r \in returned : r.ok /\ r.value = results

\* a batch has returned whose first file failed and whose second file was
\* analysed, with a function
C11_Witness ==
    /\ pc = "returned"
    /\ Len(parsed_files) = 2
    /\ ~parsed_files[1].ok
    /\ parsed_files[2].ok
    /\ parsed_files[2].value.functions # <<>>
    /\ results.files_analyzed = 1
    /\ Len(results.errors) = 1

\* the walk yields the file data.bin
HasDataBin == \E i \in DOMAIN entries : entries[i].ok /\ entries[i].value.path = DataBin

BatchReturned == pc = "returned" /\ ~WalkFailed

\* C12: a file data.bin of the input produces no function record, counts
\* neither in files_analyzed nor in the language breakdown, and appears in
\* the error list of the final results.
C12_UnsupportedExtensionIsSoftError ==
    (BatchReturned /\ HasDataBin) =>
        /\ \A i \in DOMAIN results.high_complexity_functions :
               results.high_complexity_functions[i].file_path # DataBin
        /\ results.files_analyzed = Len(SelectSeq(parsed_files, Succeeded))
        /\ DataBin \notin { discovered_files[i] : i \in DOMAIN discovered_files }
        /\ "Unknown" \notin DOMAIN results.language_breakdown
        /\ \E i \in DOMAIN results.errors : Contains(results.errors[i], DataBin)

\* the entry is a file that discover_files keeps
Analysable(entry) ==
    entry.ok /\ DiscoverFiles(config, <<entry>>) = Ok(<<entry.value.path>>)

NothingToAnalyze == \A i \in DOMAIN entries : ~Analysable(entries[i])

\* C13: when the input has no analysable file, the caller gets a condition
\* that is no ordinary successful result; in every other case the batch
\* completes and returns results.
C13_NothingToAnalyzeIsReported ==
    pc = "returned" =>
        \A r \in returned :
            /\ NothingToAnalyze => ~r.ok
            /\ ~NothingToAnalyze => r.ok /\ r.value = results

\* the sum of the values of a map of numbers
RECURSIVE SumOf(_, _)
SumOf(map, keys) ==
    IF keys = {} THEN 0
    ELSE LET key == CHOOSE k \in keys : TRUE IN
         map[key] + SumOf(map, keys \ {key})

LanguageFunctions(res) ==
    [l \in DOMAIN res.language_breakdown |-> res.language_breakdown[l].functions]

LanguageFiles(res) ==
    [l \in DOMAIN res.language_breakdown |-> res.language_breakdown[l].files]

\* C14: after any sequence of add_file calls the counts of
\* complexity_distribution sum to total_functions, the per-language function
\* counts sum to total_functions and the per-language file counts sum to
\* files_analyzed.
C14_CountsAddUp ==
    Aggregating =>
        /\ SumOf(results.complexity_distribution,
                 DOMAIN results.complexity_distribution) = results.total_functions
        /\ SumOf(LanguageFunctions(results), DOMAIN results.language_breakdown)
               = results.total_functions
        /\ SumOf(LanguageFiles(results), DOMAIN results.language_breakdown)
               = results.files_analyzed

C14_Witness ==
    /\ pc = "add"
    /\ results.files_analyzed = 2
    /\ results.total_functions = 4
    /\ Cardinality(DOMAIN results.language_breakdown) = 2
    /\ \E k \in DOMAIN results.complexity_distribution :
           results.complexity_distribution[k] >= 2

\* the sum of the complexities of the functions of the parsed files of a
\* sequence of results
RECURSIVE ComplexityOf(_)
ComplexityOf(functions) ==
    IF functions = <<>> THEN 0
    ELSE Head(functions).complexity + ComplexityOf(Tail(functions))

RECURSIVE ComplexityIn(_)
ComplexityIn(rs) ==
    IF rs = <<>> THEN 0
    ELSE (IF Head(rs).ok THEN ComplexityOf(Head(rs).value.functions) ELSE 0)
             + ComplexityIn(Tail(rs))

\* C15 as stated: after finalize, average_complexity * total_functions is
\* the sum of the complexities of all added functions (the sums here stay
\* far below 2^32, the product is the f64 product), and average_complexity
\* is 0 when no function was added.
C15_AverageTimesCountIsTotal ==
    BatchReturned =>
        /\ results.total_functions > 0 =>
             F64MulNat(results.average_complexity, results.total_functions)
                 = F64FromNat(ComplexityIn(parsed_files))
        /\ results.total_functions = 0 => results.average_complexity = F64Zero

\* C15: after finalize, average_complexity is the double nearest to the sum
\* of the complexities of all added functions divided by total_functions,
\* and it is 0 when no function was added.
C15_AverageIsNearestDouble ==
    BatchReturned =>
        /\ results.total_functions = FunctionsIn(parsed_files)
        /\ results.total_functions > 0 =>
             IsNearestDouble(results.average_complexity,
                             ComplexityIn(parsed_files), results.total_functions)
        /\ results.total_functions = 0 => results.average_complexity = F64Zero

\* the average of seven functions of total complexity 61 has been taken,
\* and seven times the average is not 61
C15_Witness ==
    /\ BatchReturned
    /\ results.total_functions = 7
    /\ ComplexityIn(parsed_files) = 61
    /\ F64MulNat(results.average_complexity, 7) # F64FromNat(61)

\* the characters of the paths, in the order of their codes
Characters ==
    <<".", "/", "A", "D", "E", "M", "R", "_", "a", "b", "c", "d", "e", "g",
      "i", "j", "l", "m", "n", "o", "p", "r", "s", "t", "u", "x", "y">>

CodeOf(c) == CHOOSE i \in DOMAIN Characters : Characters[i] = c

\* p < q for two paths, as strings
RECURSIVE PathLess(_, _)
PathLess(p, q) ==
    IF q = <<>> THEN FALSE
    ELSE IF p = <<>> THEN TRUE
    ELSE IF Head(p) = Head(q) THEN PathLess(Tail(p), Tail(q))
    ELSE CodeOf(Head(p)) < CodeOf(Head(q))

\* a comes before b by complexity descending, then file path ascending, then
\* start line ascending
RankedBefore(a, b) ==
    \/ a.complexity > b.complexity
    \/ /\ a.complexity = b.complexity
       /\ \/ PathLess(a.file_path, b.file_path)
          \/ a.file_path = b.file_path /\ a.line_start <= b.line_start

\* C16: after finalize, high_complexity_functions is ordered by complexity
\* descending, ties broken by file path ascending and then by start line
\* ascending, whatever the order in which the files were added.
C16_RankedByComplexityPathLine ==
    BatchReturned =>
        \A i, j \in DOMAIN results.high_complexity_functions :
            i < j => RankedBefore(results.high_complexity_functions[i],
                                  results.high_complexity_functions[j])

\* the lines of the files among the first n discovered ones that were
\* analysed successfully
RECURSIVE LinesAnalysed(_)
LinesAnalysed(n) ==
    IF n = 0 THEN 0
    ELSE (IF parsed_files[n].ok THEN EntryAt(discovered_files[n]).lines ELSE 0)
             + LinesAnalysed(n - 1)

\* C17: when a batch completes, total_lines is the sum of the line counts
\* of the successfully analysed files, so it is positive whenever a
\* non-empty file was analysed.
C17_TotalLinesIsSumOfLines ==
    BatchReturned =>
        /\ results.total_lines = LinesAnalysed(Len(parsed_files))
        /\ (\E i \in DOMAIN parsed_files :
                parsed_files[i].ok /\ EntryAt(discovered_files[i]).lines > 0)
               => results.total_lines > 0

\* the function of the file is in high_complexity_functions
Flagged(function, file_path) ==
    \E i \in DOMAIN results.high_complexity_functions :
        results.high_complexity_functions[i]
            = HighComplexityFunction(function, file_path)

\* C18: a function is flagged as high-complexity if and only if its
\* complexity is strictly greater than the complexity threshold, which is 10
\* when none is configured, as in every run here.
C18_FlaggedIffAboveThreshold ==
    BatchReturned =>
        \A i \in DOMAIN parsed_files :
            parsed_files[i].ok =>
                \A k \in DOMAIN parsed_files[i].value.functions :
                    LET function == parsed_files[i].value.functions[k] IN
                    Flagged(function, parsed_files[i].value.path)
                        <=> function.complexity > 10

----------------------------------------------------------------------------
(* Properties of the complexity of a function *)

\* the kinds of the decision and loop constructs: conditionals and their
\* else branches, loops, switch and match with their arms, catch clauses,
\* the ternary operator and binary (so also boolean) operators
DecisionOrLoopKinds ==
    {"if_statement", "if_expression", "else_clause", "else",
     "while_statement", "while_expression",
     "for_statement", "for_expression", "for_in_statement",
     "switch_statement", "match_expression", "case_clause", "match_arm",
     "catch_clause", "conditional_expression", "loop_expression",
     "binary_expression"}

HasDecisionOrLoop(t) == \E i \in DOMAIN t : t[i].kind \in DecisionOrLoopKinds

\* the sources here that have no decision or loop construct
PlainSources == {SimpleSource, TryFinallySource}

\* C19: the cyclomatic complexity computed for a function subtree is at
\* least 1, and it is exactly 1 when the subtree contains no decision or
\* loop construct; likewise for the complexity counted on the lines of a
\* file.
C19_ComplexityOneWithoutDecisions ==
    /\ pc = "measured" =>
         /\ cyclomatic_complexity >= 1
         /\ ~HasDecisionOrLoop(tree) => cyclomatic_complexity = 1
    /\ pc = "counted" =>
         /\ basic_complexity >= 1
         /\ content \in PlainSources => basic_complexity = 1

\* C20: for the Rust function
\* fn f(x: i32) -> i32 { if x > 0 { if x > 10 { x } else { 0 } } else { -x } }
\* the cyclomatic complexity is 3 and the nesting depth is 2, and the
\* complexity counted on the lines of its file is 3 as well.
C20_NestedIfIsThreeAndTwo ==
    /\ (pc = "measured" /\ tree \in NestedIfFunctions) =>
         /\ cyclomatic_complexity = 3
         /\ nesting_depth = 2
    /\ (pc = "counted" /\ content = NestedIfSource) => basic_complexity = 3

\* C21: for a function whose body is N if blocks nested one inside the
\* previous and nothing else, calculate_nesting_depth returns N, for every
\* N from 0 on.
C21_NestedIfsGiveDepthN ==
    pc = "measured" =>
        \A n \in 0..MaxNesting :
            tree \in {RustNestedIfs(n), JsNestedIfs(n)} => nesting_depth = n

\* the parents of the nodes of a tree
ParentsOf(t) == [i \in DOMAIN t |-> t[i].parent]

\* t with the tree child added as the last child of node p
InsertChild(t, p, child) ==
    LET under == { i \in DOMAIN t : p \in PathToRoot(ParentsOf(t), i) }
        last == CHOOSE i \in under : \A j \in under : j <= i
        moved == [i \in DOMAIN child |->
                     [kind |-> child[i].kind,
                      parent |-> IF child[i].parent = 0 THEN p
                                 ELSE child[i].parent + last]]
        rest == [i \in 1..(Len(t) - last) |->
                    [kind |-> t[last + i].kind,
                     parent |-> IF t[last + i].parent > last
                                THEN t[last + i].parent + Len(child)
                                ELSE t[last + i].parent]]
    IN  SubSeq(t, 1, last) \o moved \o rest

\* the if statements that can be added to a function of the language of t:
\* if x > 0 { } with and without an else branch
IfStatementsFor(t) ==
    IF t[1].kind = "function_item"
    THEN { Tree("if_expression", <<Token("if"), Comparison, RustNestedIfBlock(0)>>),
           IfExpression(RustNestedIfBlock(0), RustNestedIfBlock(0), TRUE) }
    ELSE { Tree("if_statement",
                <<Token("if"),
                  Tree("parenthesized_expression", <<Token("("), Comparison, Token(")")>>),
                  JsNestedIfBlock(0)>>),
           Tree("if_statement",
                <<Token("if"),
                  Tree("parenthesized_expression", <<Token("("), Comparison, Token(")")>>),
                  JsNestedIfBlock(0),
                  Tree("else_clause", <<Token("else"), JsNestedIfBlock(0)>>)>>) }

\* the blocks of a function, where a statement can be added
BlocksOf(t) == { i \in DOMAIN t : t[i].kind \in {"block", "statement_block"} }

\* if x > 0 { } as text
IfText == <<"i", "f", " ", "x", " ", ">", " ", "0", " ", "{", " ", "}", " ">>

\* the lines with the if statement added on a line of its own before line i
WithIfLine(lines, i) ==
    SubSeq(lines, 1, i - 1) \o <<IfText>> \o SubSeq(lines, i, Len(lines))

\* the lines with the if statement added on line i, before the brace that
\* ends the line
WithIfOnLine(lines, i) ==
    [lines EXCEPT ![i] = SubSeq(@, 1, Len(@) - 1) \o IfText \o <<"}">>]

\* C22: adding one more if statement to the body of a function, all else
\* equal, increases the complexity reported for it by exactly 1; so does
\* adding it to the text of a file for the complexity counted on lines.
C22_OneMoreIfAddsOne ==
    /\ pc = "measured" =>
         \A p \in BlocksOf(tree) :
             \A statement \in IfStatementsFor(tree) :
                 CalculateCyclomaticComplexity(InsertChild(tree, p, statement))
                     = cyclomatic_complexity + 1
    /\ pc = "counted" =>
         /\ \A i \in 1..(Len(content) + 1) :
                CalculateBasicComplexity(WithIfLine(content, i)) = basic_complexity + 1
         /\ \A i \in DOMAIN content :
                (content[i] # <<>> /\ content[i][Len(content[i])] = "}") =>
                    CalculateBasicComplexity(WithIfOnLine(content, i))
                        = basic_complexity + 1

\* C23: each boolean && or || in a condition inside a function adds exactly
\* 1 to the cyclomatic complexity of the function: a function with the one
\* statement if x > 0 && x > 0 { } has the complexity of a function with one
\* if, plus 1; so has its file for RustParser::calculate_complexity.
C23_BooleanOperatorAddsOne ==
    /\ pc = "measured" =>
         \A operator \in LogicalOperators :
             /\ tree = RustLogicalIf(operator) =>
                  cyclomatic_complexity
                      = CalculateCyclomaticComplexity(RustNestedIfs(1)) + 1
             /\ tree = JsLogicalIf(operator) =>
                  cyclomatic_complexity
                      = CalculateCyclomaticComplexity(JsNestedIfs(1)) + 1
    /\ pc = "parsed" =>
         \A operator \in LogicalOperators :
             tree = SourceFile(RustLogicalIf(operator)) =>
                 parser_complexity = Some(Returned(2))

-----------------------------------------------------------------------------
(* Properties of the parallel workers of analyze_path *)

\* what aggregate_results makes of a sequence of parse results, before finalize
RECURSIVE Aggregated(_, _)
Aggregated(res, rs) ==
    IF rs = <<>> THEN res
    ELSE Aggregated(IF Head(rs).ok THEN AddFile(res, Head(rs).value)
                    ELSE [res EXCEPT !.errors = Append(@, Head(rs).error)],
                    Tail(rs))

\* what reading and parsing gives for each discovered file, in the order of
\* the files
OutcomesInFileOrder ==
    [i \in DOMAIN discovered_files |-> EntryAt(discovered_files[i]).outcome]

\* C24: aggregate_results starts only after the parse result of every
\* discovered file is available, whatever the order in which the workers
\* finished, and the results (files_analyzed, total_functions, the histogram,
\* errors and all other fields) are those of the files taken in the order of
\* discovery, so they do not depend on the order in which the workers finished.
C24_AggregationWaitsAndIgnoresWorkerOrder ==
    /\ pc \in {"aggregate", "add"} =>
         /\ DOMAIN collected = DOMAIN discovered_files
         /\ parsed_files = OutcomesInFileOrder
    /\ (pc = "returned" /\ ~WalkFailed) =>
         /\ DOMAIN collected = DOMAIN discovered_files
         /\ results = Finalize(Aggregated(NewResults, OutcomesInFileOrder))

\* the worker of the second file finished before the worker of the first and
\* both files failed, with different errors
C24_Witness ==
    /\ pc = "returned"
    /\ ~WalkFailed
    /\ Len(finished) >= 2
    /\ finished[1] = 2
    /\ finished[2] = 1
    /\ Len(results.errors) >= 2
    /\ results.errors[1] # results.errors[2]

-----------------------------------------------------------------------------
(* Properties of the external dependencies and of the dependency depths *)

\* the imports of the input whose path is external for the language of their file
ExternalImportPaths ==
    UNION { { e.imports[i].module_path :
                i \in { j \in DOMAIN e.imports :
                          IsExternalDependency(e.imports[j].module_path, e.language) } } :
            e \in input }

\* the number of times the files of the input import the name as an external one
RECURSIVE ExternalOccurrences(_, _)
ExternalOccurrences(name, files) ==
    IF files = {} THEN 0
    ELSE LET e == CHOOSE x \in files : TRUE IN
         Cardinality({ i \in DOMAIN e.imports :
                         /\ e.imports[i].module_path = name
                         /\ IsExternalDependency(name, e.language) })
            + ExternalOccurrences(name, files \ {e})

\* analyze_external_dependencies has returned
Tallied == pc \in {"depths", "bfs", "coupling", "done"}

\* C25: external imports never become graph nodes or edge endpoints; they
\* are tallied in a name -> usage-count map in which every occurrence of an
\* external import of a name, in any module, adds 1 to that name's count.
C25_ExternalImportsAreCountedNotGraphed ==
    /\ pc # "registry" =>
         \A name \in ExternalImportPaths :
             /\ name \notin NodeIds(graph)
             /\ \A i \in DOMAIN graph.edges :
                    graph.edges[i].from # name /\ graph.edges[i].to # name
    /\ Tallied =>
         /\ DOMAIN external_dependencies = ExternalImportPaths
         /\ \A name \in ExternalImportPaths :
                external_dependencies[name] = ExternalOccurrences(name, input)

\* some edge of g lies on a cycle: its source is reached from its target
HasCycle(g) ==
    \E i \in DOMAIN g.edges : g.edges[i].from \in ReachedFrom(g, {g.edges[i].to})

\* C26: detect_circular_dependencies returns an empty list if and only if
\* the directed graph formed by the edges has no cycle (a self-edge is a
\* cycle), for every graph, duplicate edges and edges to ids that are no
\* nodes included, and every order of the nodes and of the neighbours.
C26_EmptyReportIffAcyclic ==
    Finished => (circular_deps = <<>> <=> ~HasCycle(graph))

\* a cycle was reported for a graph with a duplicate edge and an edge to an
\* id that is no node, whose first node is on no cycle
C26_Witness ==
    /\ pc = "done"
    /\ circular_deps # <<>>
    /\ \E i, j \in DOMAIN graph.edges : i # j /\ graph.edges[i] = graph.edges[j]
    /\ \E i \in DOMAIN graph.edges : graph.edges[i].to \notin NodeIds(graph)
    /\ graph.nodes[1].id \notin { graph.edges[i].to : i \in DOMAIN graph.edges }

\* the ids the module has an edge to
DependenciesOf(g, id) ==
    { g.edges[i].to : i \in { j \in DOMAIN g.edges : g.edges[j].from = id } }

\* calculate_dependency_depths has returned
Measured == pc \in {"coupling", "done"}

\* C27: calculate_dependency_depths assigns a depth to every module of the
\* graph: 0 to a module with no outgoing edge, and otherwise 1 plus the
\* smallest depth among the modules it depends on.
C27_EveryModuleHasItsDepth ==
    Measured =>
        \A id \in NodeIds(graph) :
            /\ id \in DOMAIN dependency_depth
            /\ LET deps == DependenciesOf(graph, id) IN
               IF deps = {} THEN dependency_depth[id] = 0
               ELSE /\ deps \subseteq DOMAIN dependency_depth
                    /\ \E d \in deps :
                          /\ dependency_depth[id] = 1 + dependency_depth[d]
                          /\ \A e \in deps : dependency_depth[d] <= dependency_depth[e]

\* a step that calls dfs_cycle_detection: the node was not visited before
\* and is visited afterwards
EntersOnlyUnvisited ==
    (pc = "dfs" /\ Len(call_stack') > Len(call_stack)) =>
        /\ call_stack'[Len(call_stack')].node \notin visited
        /\ call_stack'[Len(call_stack')].node \in visited'
        /\ visited \subseteq visited'

\* a step of the loop over the queue: every entry it adds to the queue has a
\* module without depth or a depth strictly below the one the module had
RequeuesOnlyShorter ==
    (pc = "bfs" /\ pc' = "bfs") =>
        /\ Len(queue') >= Len(queue) - 1
        /\ \A i \in Len(queue)..Len(queue') :
               \/ queue'[i][1] \notin DOMAIN depths
               \/ queue'[i][2] < depths[queue'[i][1]]

\* C28: on every finite graph (cycles, self-edges, duplicate edges and edges
\* to unknown ids included) the passes of analyze over the graph terminate:
\* the cycle detection enters a node only when it is not in the shared
\* visited set, so each node at most once; the loop over the queue of
\* calculate_dependency_depths queues a module only when its depth strictly
\* decreases; and analyze reaches its end.
C28_GraphPassesTerminate ==
    /\ [][EntersOnlyUnvisited]_vars
    /\ [][RequeuesOnlyShorter]_vars
    /\ <>(pc = "done")

\* the passes have ended on a graph with a cycle, a duplicate edge, an edge
\* to an id that is no node and a module that got a depth above 0
C28_Witness ==
    /\ pc = "done"
    /\ HasCycle(graph)
    /\ \E i, j \in DOMAIN graph.edges : i # j /\ graph.edges[i] = graph.edges[j]
    /\ \E i \in DOMAIN graph.edges : graph.edges[i].to \notin NodeIds(graph)
    /\ \E id \in DOMAIN dependency_depth : dependency_depth[id] > 0

\* what the claim compares of a report: the modules and the severity of each
\* reported cycle
ModulesAndSeverities(report) ==
    { <<Range(report[i].cycle), report[i].severity>> : i \in DOMAIN report }

\* the report of the earlier run
FirstReport == (CHOOSE r \in first_run : TRUE).circular_dependencies

\* C29: two runs of detect_circular_dependencies over the same nodes and
\* edges that visit the nodes in different orders report the same number of
\* cycles, with the same sets of modules and the same severities.
C29_ReportIgnoresIterationOrder ==
    (pc = "done" /\ first_run # None) =>
        /\ Len(circular_deps) = Len(FirstReport)
        /\ ModulesAndSeverities(circular_deps) = ModulesAndSeverities(FirstReport)

-----------------------------------------------------------------------------
(* Properties of the quality gates *)

\* the actual value satisfies the operator against the threshold
Satisfies(operator, actual_value, threshold) ==
    CASE operator = "LessThan" -> actual_value < threshold
      [] operator = "GreaterThan" -> actual_value > threshold
      [] operator = "Equal" -> actual_value = threshold
      [] operator = "LessThanOrEqual" -> actual_value <= threshold
      [] operator = "GreaterThanOrEqual" -> actual_value >= threshold

\* C30: evaluate_gate returns Pass if and only if the actual value of the
\* metric satisfies the operator of the gate against its threshold, for each
\* of the five operators, and Fail otherwise; the report of
\* execute_quality_gates has the overall status Fail whenever a gate failed.
C30_GatePassesIffOperatorHolds ==
    /\ \A i \in DOMAIN gate_results :
           LET gate == quality_gates[i]
               result == gate_results[i]
           IN  result.status =
                   IF Satisfies(gate.operator, result.actual_value, gate.threshold)
                   THEN "Pass" ELSE "Fail"
    /\ pc = "reported" =>
           ((\E i \in DOMAIN gate_results : gate_results[i].status = "Fail")
                => overall_status = "Fail")

====
